---- MODULE Spec2Model ----
(***************************************************************************)
(* A model of konig's rank-indexed adjacency store: the augmented splay    *)
(* tree AdjacencyTree (include/AdjacencyTree.hpp) and the AdjacencyManager *)
(* wrapping it (include/AdjacencyManager.hpp).                             *)
(*                                                                         *)
(* The heap of AdjSplayVertex objects is an arena of node ids 1..MaxNodes; *)
(* NULL is 0.  Every private method of the tree is an operator from heap   *)
(* to heap (a record of the fields of all nodes plus tree_root), written   *)
(* statement by statement after the C++.  Methods that return a value      *)
(* return a record [h |-> heap after the call, ret |-> value].             *)
(***************************************************************************)
EXTENDS Integers, Naturals, Sequences, FiniteSets, TLC

\* Bounds of the model: the first endpoints are 0..MaxTail, the second
\* endpoints 0..MaxHead, a tree holds at most MaxNodes adjacencies, and an
\* iterator is moved by at most MaxDelta positions at a time.
MaxTail == 1
MaxHead == 1
MaxNodes == 3
MaxDelta == 2
\* A RangeSampler is asked for at most MaxSample values of a range [min, max)
\* with 0 <= min <= MaxMin and max - min <= MaxSpan, with at most MaxExcl
\* excluded values.
MaxSample == 3
MaxMin == 1
MaxSpan == 5
MaxExcl == 2
\* A DisjointSet has at most MaxElements elements.
MaxElements == 4
\* The generator is called (srand or xor128) at most MaxCalls times.
MaxCalls == 4
\* A graph has at most MaxVertices vertices, and add_edges is asked for at
\* most MaxEdgesNo edges at a time.
MaxVertices == 3
MaxEdgesNo == 3
MaxRankVertices == 5
MaxCallVertices == 2
MaxConnectVertices == 4

NULL == 0
\* adjacency_t: std::pair<vid_t, vid_t>.  The callers of a stand-alone tree
\* draw their adjacencies from adjacency_t; the callers of the manager draw
\* them from AM_adjacency_t, which has one more second endpoint, so that a
\* first endpoint can have an adjacency that is neither its first nor its
\* last.
adjacency_t == (0..MaxTail) \X (0..MaxHead)
AM_adjacency_t == (0..MaxTail) \X (0..(MaxHead + 1))
\* the addresses the allocator can hand out
Node == 1..Cardinality(AM_adjacency_t)
Delta == (0 - MaxDelta)..MaxDelta

VARIABLES
    NDEBUG,             \* the build: TRUE when assert() is compiled out
    parent,             \* AdjSplayVertex::parent, per node
    left_child,         \* AdjSplayVertex::left_child
    right_child,        \* AdjSplayVertex::right_child
    subtree_size,       \* AdjSplayVertex::subtree_size
    left_subtree_size,  \* AdjSplayVertex::left_subtree_size
    adjacency,          \* AdjSplayVertex::adjacency
    tree_root,          \* AdjacencyTree::tree_root
    allocated,          \* nodes obtained from new and not yet deleted
    assert_failed,      \* 0, or the source line of the assert that aborted
    vertex_range_first, \* AdjacencyManager::vertex_range_first
    vertex_range_last,  \* AdjacencyManager::vertex_range_last
    it,                 \* the iterator held by the caller (its splay_vertex)
    stored,             \* history: the adjacencies inserted and not since erased
    last_op,            \* history: the last public call, its arguments and result
    rs_args,            \* the arguments of RangeSampler's constructor
    rs_draws,           \* history: the values Random::randrange returned to it
    samples,            \* RangeSampler::samples
    constructed,        \* TRUE once the constructor has run (or thrown)
    exception,          \* "none", or the exception the last call has thrown
    ds_parent,          \* DisjointSet::parent
    ds_rank,            \* DisjointSet::rank
    Random_x,           \* Random::x, a 64-bit word
    Random_w,           \* Random::w, a 64-bit word
    returned,           \* history: the srand and xor128 calls, with their values
    graph_type,         \* "UndirectedGraph" or "DirectedGraph"
    vertices_no,        \* Graph::vertices_no
    adj_list            \* Graph::adj_list

heap_vars == <<NDEBUG, parent, left_child, right_child, subtree_size,
               left_subtree_size, adjacency, tree_root, allocated,
               assert_failed, vertex_range_first, vertex_range_last, it,
               stored>>
tree_vars == <<heap_vars, last_op>>
sampler_vars == <<rs_args, rs_draws, samples, constructed>>
ds_vars == <<ds_parent, ds_rank>>
random_vars == <<Random_x, Random_w, returned>>
graph_vars == <<graph_type, vertices_no, adj_list>>

vars == <<tree_vars, sampler_vars, exception, ds_vars, random_vars, graph_vars>>

\* std::pair's operator<, operator>= ... : lexicographic on (first, second)
adj_lt(a, b) == a[1] < b[1] \/ (a[1] = b[1] /\ a[2] < b[2])
\* mutant: >= that compares the first endpoints only
adj_ge_first_only(a, b) == a[1] >= b[1]
adj_ge(a, b) == ~adj_lt(a, b)
adj_gt(a, b) == adj_lt(b, a)

\* The heap as one value.
Heap ==
    [parent |-> parent, left_child |-> left_child, right_child |-> right_child,
     subtree_size |-> subtree_size, left_subtree_size |-> left_subtree_size,
     adjacency |-> adjacency, tree_root |-> tree_root, allocated |-> allocated,
     assert_failed |-> assert_failed]

\* The fields of a node that is not allocated (canonical filler).
NoAdjacency == <<0, 0>>

EmptyHeap ==
    [parent |-> [x \in Node |-> NULL], left_child |-> [x \in Node |-> NULL],
     right_child |-> [x \in Node |-> NULL],
     subtree_size |-> [x \in Node |-> 0],
     left_subtree_size |-> [x \in Node |-> 0],
     adjacency |-> [x \in Node |-> NoAdjacency], tree_root |-> NULL,
     allocated |-> {}, assert_failed |-> 0]

\* assert(cond) at source line `line`: aborts the program unless NDEBUG.
assert_at(h, cond, line) ==
    IF NDEBUG \/ cond \/ h.assert_failed # 0 THEN h
    ELSE [h EXCEPT !.assert_failed = line]

\* new AdjSplayVertex(adjacency): the allocator hands out a free address.
\* The code only compares addresses for equality, so which free address it
\* gets is immaterial; the model takes the one numbered as the adjacency
\* when that is free and the lowest free one otherwise.
new_vertex_id(h, a) ==
    LET pref == a[1] * (MaxHead + 2) + a[2] + 1
        free == Node \ h.allocated
    IN IF pref \in free THEN pref
       ELSE CHOOSE x \in free : \A y \in free : x <= y

new_AdjSplayVertex(h, x, a) ==
    [h EXCEPT !.parent[x] = NULL, !.left_child[x] = NULL,
              !.right_child[x] = NULL, !.subtree_size[x] = 1,
              !.left_subtree_size[x] = 0, !.adjacency[x] = a,
              !.allocated = @ \cup {x}]

\* delete vertex
delete_vertex(h, x) ==
    [h EXCEPT !.parent[x] = NULL, !.left_child[x] = NULL,
              !.right_child[x] = NULL, !.subtree_size[x] = 0,
              !.left_subtree_size[x] = 0, !.adjacency[x] = NoAdjacency,
              !.allocated = @ \ {x}]

\* mutant: update that leaves the right subtree out of subtree_size
update_without_right(h, x) ==
    LET l == h.left_child[x]
        ls == IF l # NULL THEN h.subtree_size[l] ELSE 0
    IN [h EXCEPT !.subtree_size[x] = 1 + ls,
                 !.left_subtree_size[x] = ls]

\* AdjSplayVertex::update
update(h, x) ==
    LET l == h.left_child[x]
        r == h.right_child[x]
        ls == IF l # NULL THEN h.subtree_size[l] ELSE 0
        rs == IF r # NULL THEN h.subtree_size[r] ELSE 0
    IN [h EXCEPT !.subtree_size[x] = 1 + ls + rs,
                 !.left_subtree_size[x] = ls]

\* AdjacencyTree::is_root, for a vertex that is not NULL.  Its assert(vertex)
\* (line 245) is modelled at the call sites that can pass NULL: the end of
\* rotate_right and rotate_left, and assert(is_root(root())) in _insert and
\* _erase.
is_root(h, vertex) == h.parent[vertex] = NULL

is_left_child(h, vertex) ==
    IF is_root(h, vertex) THEN FALSE
    ELSE h.left_child[h.parent[vertex]] = vertex

is_right_child(h, vertex) ==
    IF is_root(h, vertex) THEN FALSE
    ELSE h.right_child[h.parent[vertex]] = vertex

RECURSIVE subtree_minimum(_, _)
subtree_minimum(h, vertex) ==
    IF h.left_child[vertex] # NULL
    THEN subtree_minimum(h, h.left_child[vertex])
    ELSE vertex

RECURSIVE subtree_maximum(_, _)
subtree_maximum(h, vertex) ==
    IF h.right_child[vertex] # NULL
    THEN subtree_maximum(h, h.right_child[vertex])
    ELSE vertex

\* AdjacencyTree::rotate_right, lines 341-347 (child = vertex->left_child,
\* inner = child->right_child), and rotate_left, lines 377-383 (mirrored):
\* `vertex` adopts the inner grandchild and becomes a child of `child`.
\* Every right-hand side of the block reads a field the block has not yet
\* written, so the four assignments are made at once.
rotate_right_relink(h, vertex, child) ==
    IF child = NULL THEN h
    ELSE [h EXCEPT
            !.left_child[vertex] = h.right_child[child],
            !.right_child[child] = vertex,
            !.parent = [x \in Node |->
                          IF x = child THEN h.parent[vertex]
                          ELSE IF x = h.right_child[child] THEN vertex
                          ELSE h.parent[x]]]

rotate_left_relink(h, vertex, child) ==
    IF child = NULL THEN h
    ELSE [h EXCEPT
            !.right_child[vertex] = h.left_child[child],
            !.left_child[child] = vertex,
            !.parent = [x \in Node |->
                          IF x = child THEN h.parent[vertex]
                          ELSE IF x = h.left_child[child] THEN vertex
                          ELSE h.parent[x]]]

\* lines 348-354 (and 384-390): the old parent of `vertex` points to `child`,
\* and `vertex` hangs below `child`
rotate_reparent(h, vertex, child) ==
    IF h.parent[vertex] = NULL THEN [h EXCEPT !.parent[vertex] = child]
    ELSE IF is_left_child(h, vertex)
    THEN [h EXCEPT !.left_child[h.parent[vertex]] = child,
                   !.parent[vertex] = child]
    ELSE [h EXCEPT !.right_child[h.parent[vertex]] = child,
                   !.parent[vertex] = child]

\* lines 356-358 (and 392-394): vertex->update(); if (child) child->update()
rotate_update(h, vertex, child) ==
    IF child = NULL THEN update(h, vertex)
    ELSE update(update(h, vertex), child)

\* lines 360-361 (and 396-397): if (is_root(child)) tree_root = child, where
\* is_root asserts that child is not NULL (line 245)
rotate_set_root(h, child) ==
    IF child = NULL THEN assert_at(h, FALSE, 245)
    ELSE IF is_root(h, child) THEN [h EXCEPT !.tree_root = child]
    ELSE h

\* AdjacencyTree::rotate_right
rotate_right(h, vertex) ==
    IF h.assert_failed # 0 THEN h
    ELSE rotate_set_root(
           rotate_update(
             rotate_reparent(
               rotate_right_relink(h, vertex, h.left_child[vertex]),
               vertex, h.left_child[vertex]),
             vertex, h.left_child[vertex]),
           h.left_child[vertex])

\* AdjacencyTree::rotate_left
rotate_left(h, vertex) ==
    IF h.assert_failed # 0 THEN h
    ELSE rotate_set_root(
           rotate_update(
             rotate_reparent(
               rotate_left_relink(h, vertex, h.right_child[vertex]),
               vertex, h.right_child[vertex]),
             vertex, h.right_child[vertex]),
           h.right_child[vertex])

\* rotate_right(vertex->parent) and rotate_left(vertex->parent), the parent
\* being read when the call is made
rotate_right_parent(h, vertex) == rotate_right(h, h.parent[vertex])
rotate_left_parent(h, vertex) == rotate_left(h, h.parent[vertex])

\* AdjacencyTree::splay, one round of the loop (lines 412-433)
splay_step(h, vertex) ==
    IF is_root(h, h.parent[vertex])
    THEN IF is_left_child(h, vertex)
         THEN rotate_right_parent(h, vertex)
         ELSE rotate_left_parent(h, vertex)
    ELSE IF is_left_child(h, vertex) /\ is_left_child(h, h.parent[vertex])
    THEN rotate_right_parent(
           rotate_right(h, h.parent[h.parent[vertex]]), vertex)
    ELSE IF is_right_child(h, vertex) /\ is_right_child(h, h.parent[vertex])
    THEN rotate_left_parent(
           rotate_left(h, h.parent[h.parent[vertex]]), vertex)
    ELSE IF is_left_child(h, vertex) /\ is_right_child(h, h.parent[vertex])
    THEN rotate_left_parent(rotate_right_parent(h, vertex), vertex)
    ELSE rotate_right_parent(rotate_left_parent(h, vertex), vertex)

\* AdjacencyTree::splay
RECURSIVE splay(_, _)
splay(h, vertex) ==
    IF h.assert_failed # 0 THEN h
    ELSE IF is_root(h, vertex) THEN [h EXCEPT !.tree_root = vertex]
    ELSE splay(splay_step(h, vertex), vertex)

\* AdjacencyTree::join, lines 453-457, max_u being splayed to the root
join_attach(h, max_u, v) ==
    IF h.assert_failed # 0 THEN h
    ELSE [update([h EXCEPT !.right_child[max_u] = v, !.parent[v] = max_u],
                 max_u)
            EXCEPT !.tree_root = max_u]

\* AdjacencyTree::join; under KONIG_DEBUG it asserts that u and v are roots
join(h, u, v) ==
    IF h.assert_failed # 0 THEN h
    ELSE IF ~(NDEBUG \/ (is_root(h, u) /\ is_root(h, v)))
    THEN assert_at(h, FALSE, 448)
    ELSE join_attach(splay(h, subtree_maximum(h, u)),
                     subtree_maximum(h, u), v)

\* AdjacencyTree::split, lines 468-471, vertex being splayed to the root
split_detach(h, vertex) ==
    IF h.assert_failed # 0 THEN h
    ELSE update([h EXCEPT
                   !.parent = [x \in Node |->
                                 IF x = h.right_child[vertex] THEN NULL
                                 ELSE h.parent[x]],
                   !.right_child[vertex] = NULL],
                vertex)

\* AdjacencyTree::split
split(h, vertex) == split_detach(splay(h, vertex), vertex)

\* AdjacencyTree::root
root(h) == h.tree_root

tree_minimum(h) ==
    IF root(h) # NULL THEN subtree_minimum(h, root(h)) ELSE NULL

tree_maximum(h) ==
    IF root(h) # NULL THEN subtree_maximum(h, root(h)) ELSE NULL

\* AdjacencyTree::size
size(h) == IF root(h) = NULL THEN 0 ELSE h.subtree_size[root(h)]

\* assert(is_root(root())), at `line`; is_root asserts that root() is not NULL
assert_is_root_root(h, line) ==
    assert_at(h, root(h) # NULL /\ is_root(h, root(h)), line)

\* a heap together with the value a method returns
Returned(h, value) == [h |-> h, ret |-> value]

\* mutant: the return of _rank without the 1 + (a 0-based rank)
rank_return_zero_based(h, vertex) == Returned(h, h.left_subtree_size[vertex])

\* AdjacencyTree::_rank, line 512
rank_return(h, vertex) == Returned(h, 1 + h.left_subtree_size[vertex])

\* AdjacencyTree::_rank
_rank(h, vertex) == rank_return(splay(h, vertex), vertex)

\* AdjacencyTree::_select: the loop, from `vertex` with `rank` left to skip
RECURSIVE select_loop(_, _, _)
select_loop(h, vertex, rank) ==
    IF vertex # NULL /\ rank # 0
    THEN IF h.left_subtree_size[vertex] >= rank
         THEN select_loop(h, h.left_child[vertex], rank)
         ELSE IF h.left_subtree_size[vertex] < rank - 1
         THEN select_loop(h, h.right_child[vertex],
                          rank - (1 + h.left_subtree_size[vertex]))
         ELSE select_loop(h, vertex, 0)
    ELSE vertex

_select(h, rank) ==
    IF rank <= 0 \/ rank > size(h) THEN NULL
    ELSE select_loop(h, root(h), rank)

\* AdjacencyTree::advance, r being what _rank(vertex) returned
advance_select(r, delta) == Returned(r.h, _select(r.h, r.ret + delta))

advance(h, vertex, delta) == advance_select(_rank(h, vertex), delta)

\* lines 579-581 and 604-606: if (cut_point) splay(cut_point); return cut_point
splay_cut_point(h, cut_point) ==
    IF cut_point # NULL THEN Returned(splay(h, cut_point), cut_point)
    ELSE Returned(h, NULL)

\* AdjacencyTree::_lower_bound: the search loop, returning cut_point
RECURSIVE lower_bound_loop(_, _, _, _)
lower_bound_loop(h, vertex, cut_point, a) ==
    IF vertex = NULL THEN cut_point
    ELSE IF adj_ge(h.adjacency[vertex], a)
         THEN IF h.adjacency[vertex] = a THEN vertex
              ELSE lower_bound_loop(h, h.left_child[vertex], vertex, a)
         ELSE lower_bound_loop(h, h.right_child[vertex], cut_point, a)

_lower_bound(h, a) ==
    splay_cut_point(h, lower_bound_loop(h, root(h), NULL, a))

\* mutant: _upper_bound's loop with >= for >
RECURSIVE upper_bound_loop_ge(_, _, _, _)
upper_bound_loop_ge(h, vertex, cut_point, a) ==
    IF vertex = NULL THEN cut_point
    ELSE IF adj_ge(h.adjacency[vertex], a)
         THEN upper_bound_loop_ge(h, h.left_child[vertex], vertex, a)
         ELSE upper_bound_loop_ge(h, h.right_child[vertex], cut_point, a)

\* AdjacencyTree::_upper_bound
RECURSIVE upper_bound_loop(_, _, _, _)
upper_bound_loop(h, vertex, cut_point, a) ==
    IF vertex = NULL THEN cut_point
    ELSE IF adj_gt(h.adjacency[vertex], a)
         THEN upper_bound_loop(h, h.left_child[vertex], vertex, a)
         ELSE upper_bound_loop(h, h.right_child[vertex], cut_point, a)

_upper_bound(h, a) ==
    splay_cut_point(h, upper_bound_loop(h, root(h), NULL, a))

\* mutant: _find that searches with _upper_bound
_find_upper(h, a) == _upper_bound(h, a)

\* AdjacencyTree::_find
_find(h, a) == _lower_bound(h, a)

\* AdjacencyTree::has, lb being what _lower_bound(adjacency) returned
has_return(lb, a) ==
    Returned(lb.h, lb.ret # NULL /\ lb.h.adjacency[lb.ret] = a)

has(h, a) == has_return(_lower_bound(h, a), a)

\* AdjacencyTree::_insert, lines 640-646: pv is what advance(cut_point, -1)
\* returned
insert_before(pv, new_vertex, cut_point) ==
    IF pv.ret # NULL
    THEN join(join(split(pv.h, pv.ret), new_vertex, cut_point),
              pv.ret, new_vertex)
    ELSE join(pv.h, new_vertex, cut_point)

\* lines 638-651: lb is what _lower_bound(adjacency) returned
insert_at(lb, new_vertex) ==
    assert_is_root_root(
        IF lb.ret # NULL
        THEN insert_before(advance(lb.h, lb.ret, -1), new_vertex, lb.ret)
        ELSE join(lb.h, root(lb.h), new_vertex),
        651)

\* lines 635-655, new_vertex being allocated
insert_new(h, new_vertex, a) ==
    Returned(splay(IF root(h) # NULL
                   THEN insert_at(_lower_bound(h, a), new_vertex)
                   ELSE h,
                   new_vertex),
             new_vertex)

\* lines 629-633: hs is what has(adjacency) returned
insert_after_has(hs, a) ==
    IF hs.ret THEN _find(hs.h, a)
    ELSE insert_new(new_AdjSplayVertex(hs.h, new_vertex_id(hs.h, a), a),
                    new_vertex_id(hs.h, a), a)

\* AdjacencyTree::_insert
_insert(h, a) == insert_after_has(has(h, a), a)

\* AdjacencyTree::_erase, lines 670-688, vertex being splayed to the root
erase_unlink(h, vertex) ==
    IF h.assert_failed # 0 THEN h
    ELSE IF h.left_child[vertex] = NULL
    THEN [h EXCEPT !.parent = [x \in Node |->
                                 IF x = h.right_child[vertex] THEN NULL
                                 ELSE h.parent[x]],
                   !.tree_root = h.right_child[vertex]]
    ELSE IF h.right_child[vertex] = NULL
    THEN [h EXCEPT !.parent[h.left_child[vertex]] = NULL,
                   !.tree_root = h.left_child[vertex]]
    ELSE [join([h EXCEPT !.parent[h.left_child[vertex]] = NULL,
                         !.parent[h.right_child[vertex]] = NULL],
               h.left_child[vertex], h.right_child[vertex])
            EXCEPT !.left_child[vertex] = NULL,
                   !.right_child[vertex] = NULL]

\* mutant: the unlinked vertex is never deleted
erase_delete_leaking(h, vertex) == h

\* mutant: delete vertex and move the node at the highest address into the
\* freed address (a compacting arena), which invalidates iterators to it
erase_delete_compacting(h, vertex) ==
    LET moved == CHOOSE x \in h.allocated : \A y \in h.allocated : y <= x
        ren(q) == IF q = moved THEN vertex ELSE q
        move(f, none) == [y \in Node |->
                            IF y = moved THEN none
                            ELSE IF y = vertex THEN f[moved] ELSE f[y]]
        movep(f) == [y \in Node |->
                       IF y = moved THEN NULL
                       ELSE IF y = vertex THEN ren(f[moved]) ELSE ren(f[y])]
    IN IF h.assert_failed # 0 THEN h
       ELSE IF moved = vertex THEN delete_vertex(h, vertex)
       ELSE [parent |-> movep(h.parent),
             left_child |-> movep(h.left_child),
             right_child |-> movep(h.right_child),
             subtree_size |-> move(h.subtree_size, 0),
             left_subtree_size |-> move(h.left_subtree_size, 0),
             adjacency |-> move(h.adjacency, NoAdjacency),
             tree_root |-> ren(h.tree_root),
             allocated |-> h.allocated \ {moved},
             assert_failed |-> h.assert_failed]

\* lines 690-691: delete vertex, unless the assert has aborted the program
erase_delete(h, vertex) ==
    IF h.assert_failed # 0 THEN h ELSE delete_vertex(h, vertex)

\* AdjacencyTree::_erase
_erase(h, vertex) ==
    IF vertex = NULL THEN h
    ELSE erase_delete(
           assert_is_root_root(erase_unlink(splay(h, vertex), vertex), 690),
           vertex)

\* mutant: find without the has() test (the lower bound, present or not)
find_after_has_unchecked(hs, a) == _find(hs.h, a)

\* AdjacencyTree::find, hs being what has(adjacency) returned
find_after_has(hs, a) ==
    IF hs.ret THEN _find(hs.h, a) ELSE Returned(hs.h, NULL)

find(h, a) == find_after_has(has(h, a), a)

\* mutant: operator+= that moves a past-the-end iterator by increment, not
\* increment + 1, from the tree maximum
iterator_plus_eq_off_by_one(h, sv, increment) ==
    IF sv # NULL THEN advance(h, sv, increment)
    ELSE IF tree_maximum(h) # NULL
    THEN advance(h, tree_maximum(h), increment)
    ELSE Returned(h, NULL)

\* AdjacencyTree::iterator::operator+= (operator++ is += 1, operator-- and
\* operator-= negate the increment); sv is the iterator's splay_vertex
iterator_plus_eq(h, sv, increment) ==
    IF sv # NULL THEN advance(h, sv, increment)
    ELSE IF tree_maximum(h) # NULL
    THEN advance(h, tree_maximum(h), increment + 1)
    ELSE Returned(h, NULL)

\* mutant: the rank operator- gives an iterator, without the - 1 for an
\* iterator that designates a node
iterator_rank_one_based(h, sv) ==
    IF sv # NULL THEN _rank(h, sv) ELSE Returned(h, size(h))

\* AdjacencyTree::iterator::operator-(const iterator&), lines 134-135:
\* (splay_vertex) ? adj_tree._rank(splay_vertex) - 1 : adj_tree.size()
rank_minus_one(r) == Returned(r.h, r.ret - 1)

iterator_rank(h, sv) ==
    IF sv # NULL THEN rank_minus_one(_rank(h, sv)) ELSE Returned(h, size(h))

\* line 137: this_rank - other_rank, o being what the rank of other returned
minus_return(this_rank, o) == Returned(o.h, this_rank - o.ret)

\* line 135 and 137, t being what the rank of *this returned
minus_other(t, other) == minus_return(t.ret, iterator_rank(t.h, other))

\* AdjacencyTree::iterator::operator-(const iterator&): sv - other
iterator_minus(h, sv, other) == minus_other(iterator_rank(h, sv), other)

\* std::unordered_map<vid_t, iterator>: count, emplace, erase, assignment
map_count(m, u) == u \in DOMAIN m
map_emplace(m, u, x) ==
    IF u \in DOMAIN m THEN m
    ELSE [k \in DOMAIN m \cup {u} |-> IF k = u THEN x ELSE m[k]]
map_erase(m, u) == [k \in DOMAIN m \ {u} |-> m[k]]
map_set(m, u, x) == [m EXCEPT ![u] = x]
EmptyMap == [k \in {} |-> NULL]

\* the manager's state with the value a method returns
ManagerReturned(h, first, last, value) ==
    [h |-> h, first |-> first, last |-> last, ret |-> value]

\* AdjacencyManager::begin(vid_t)
AM_begin_of(first, vertex) ==
    IF map_count(first, vertex) THEN first[vertex] ELSE NULL

\* mutant: end(vertex) that returns the last adjacency itself, without + 1
AM_end_of_last(h, last, vertex) ==
    IF map_count(last, vertex) THEN Returned(h, last[vertex])
    ELSE Returned(h, NULL)

\* AdjacencyManager::end(vid_t)
AM_end_of(h, last, vertex) ==
    IF map_count(last, vertex) THEN iterator_plus_eq(h, last[vertex], 1)
    ELSE Returned(h, NULL)

\* mutant: the index update of insert that sets vertex_range_last only when
\* it is empty
AM_insert_index_stale_last(r, first, last, a) ==
    ManagerReturned(
        r.h,
        IF ~map_count(first, a[1]) THEN map_emplace(first, a[1], r.ret)
        ELSE IF first[a[1]] = NULL \/ adj_gt(r.h.adjacency[first[a[1]]], a)
        THEN map_set(first, a[1], r.ret)
        ELSE first,
        IF ~map_count(last, a[1]) THEN map_emplace(last, a[1], r.ret)
        ELSE IF last[a[1]] = NULL
        THEN map_set(last, a[1], r.ret)
        ELSE last,
        r.ret)

\* AdjacencyManager::insert, lines 89-99: r is what adjacency_tree.insert
\* returned.  An entry that is missing is emplaced as end() and then, being
\* past-the-end, set to the new iterator.
AM_insert_index(r, first, last, a) ==
    ManagerReturned(
        r.h,
        IF ~map_count(first, a[1]) THEN map_emplace(first, a[1], r.ret)
        ELSE IF first[a[1]] = NULL \/ adj_gt(r.h.adjacency[first[a[1]]], a)
        THEN map_set(first, a[1], r.ret)
        ELSE first,
        IF ~map_count(last, a[1]) THEN map_emplace(last, a[1], r.ret)
        ELSE IF last[a[1]] = NULL \/ adj_lt(r.h.adjacency[last[a[1]]], a)
        THEN map_set(last, a[1], r.ret)
        ELSE last,
        r.ret)

\* AdjacencyManager::insert; returns the heap, the two maps and the iterator
AM_insert_op(h, first, last, a) ==
    AM_insert_index(_insert(h, a), first, last, a)

\* AdjacencyManager::erase(const iterator), the asserts of lines 125-128 and
\* 132 (under KONIG_DEBUG); u is it->first
AM_erase_asserts(h, first, last, sv, u) ==
    IF ~(map_count(first, u) /\ map_count(last, u))
    THEN assert_at(h, FALSE, 125)
    ELSE IF first[u] = NULL \/ last[u] = NULL
    THEN assert_at(h, FALSE, 127)
    ELSE IF first[u] = last[u]
    THEN assert_at(h, first[u] = sv, 132)
    ELSE h

\* lines 137-140: ++vertex_range_first[u] or --vertex_range_last[u]; m is
\* what the increment returned
AM_erase_set_first(m, first, last, u) ==
    ManagerReturned(m.h, map_set(first, u, m.ret), last, NULL)

AM_erase_set_last(m, first, last, u) ==
    ManagerReturned(m.h, first, map_set(last, u, m.ret), NULL)

\* lines 130-141: the update of the index
AM_erase_index(h, first, last, sv, u) ==
    IF h.assert_failed # 0 THEN ManagerReturned(h, first, last, NULL)
    ELSE IF first[u] = last[u]
    THEN ManagerReturned(h, map_erase(first, u), map_erase(last, u), NULL)
    ELSE IF sv = first[u]
    THEN AM_erase_set_first(iterator_plus_eq(h, first[u], 1), first, last, u)
    ELSE IF sv = last[u]
    THEN AM_erase_set_last(iterator_plus_eq(h, last[u], -1), first, last, u)
    ELSE ManagerReturned(h, first, last, NULL)

\* line 143: adjacency_tree.erase(it)
AM_erase_tree(m, sv) ==
    IF m.h.assert_failed # 0 THEN m
    ELSE ManagerReturned(_erase(m.h, sv), m.first, m.last, NULL)

\* AdjacencyManager::erase(const iterator), for an iterator that designates
\* a node
AM_erase_it_op(h, first, last, sv) ==
    AM_erase_tree(
        AM_erase_index(
            AM_erase_asserts(h, first, last, sv, h.adjacency[sv][1]),
            first, last, sv, h.adjacency[sv][1]),
        sv)

\* AdjacencyManager::erase(const adjacency_t), f being what find returned
AM_erase_found(f, first, last) ==
    IF f.ret # NULL THEN AM_erase_it_op(f.h, first, last, f.ret)
    ELSE ManagerReturned(f.h, first, last, NULL)

AM_erase_op(h, first, last, a) == AM_erase_found(find(h, a), first, last)

\* AM.end(vertex) - AM.begin(vertex), the distance std::vector's range
\* constructor takes of (AM.begin(0), AM.end(0)); e is what end(vertex)
\* returned
AM_distance_from(e, first, vertex) ==
    iterator_minus(e.h, e.ret, AM_begin_of(first, vertex))

AM_distance_op(h, first, last, vertex) ==
    AM_distance_from(AM_end_of(h, last, vertex), first, vertex)

\* The caller's loop over the adjacencies of `vertex`:
\*   for (auto it = AM.begin(vertex); it != AM.end(vertex); ++it) push_back(*it)
\* from the iterator `cur` on.  ok is FALSE when the loop would increment a
\* past-the-end iterator (undefined) or has not ended after `fuel` rounds.
RangeReturned(h, visited, ok) == [h |-> h, visited |-> visited, ok |-> ok]

range_visit(key, rest) ==
    RangeReturned(rest.h, <<key>> \o rest.visited, rest.ok)

RECURSIVE range_loop(_, _, _, _, _)
RECURSIVE range_next(_, _, _, _, _)
RECURSIVE range_test(_, _, _, _, _)

\* ++it, then the next round: n is what the increment returned
range_next(n, last, vertex, key, fuel) ==
    range_visit(key, range_loop(n.h, last, vertex, n.ret, fuel))

\* it != AM.end(vertex), e being what end(vertex) returned
range_test(e, last, vertex, cur, fuel) ==
    IF cur = e.ret THEN RangeReturned(e.h, <<>>, TRUE)
    ELSE IF cur = NULL \/ fuel = 0 THEN RangeReturned(e.h, <<>>, FALSE)
    ELSE range_next(iterator_plus_eq(e.h, cur, 1), last, vertex,
                    e.h.adjacency[cur], fuel - 1)

range_loop(h, last, vertex, cur, fuel) ==
    range_test(AM_end_of(h, last, vertex), last, vertex, cur, fuel)

AM_range(h, first, last, vertex) ==
    range_loop(h, last, vertex, AM_begin_of(first, vertex),
               Cardinality(h.allocated) + 1)

-----------------------------------------------------------------------------
\* namespace Random (graphgen.hpp): the xorshift generator.  A uint64_t is a
\* function from the bit positions 0..63 (0 the least significant) to 0..1.

Bit == 0..63

\* the decimal literal, as its digits, divided by `by`: the quotient's
\* digits and the remainder of the long division
RECURSIVE literal_div(_, _, _)
literal_div(digits, carry, by) ==
    IF digits = <<>> THEN <<>>
    ELSE <<(10 * carry + Head(digits)) \div by>>
         \o literal_div(Tail(digits), (10 * carry + Head(digits)) % by, by)

RECURSIVE literal_mod(_, _, _)
literal_mod(digits, carry, by) ==
    IF digits = <<>> THEN carry
    ELSE literal_mod(Tail(digits), (10 * carry + Head(digits)) % by, by)

\* the number whose decimal digits are `digits`, below 2^72, in three
\* parts of 24 bits, the lowest first
literal_parts(digits) ==
    <<literal_mod(digits, 0, 2^24),
      literal_mod(literal_div(digits, 0, 2^24), 0, 2^24),
      literal_mod(literal_div(literal_div(digits, 0, 2^24), 0, 2^24),
                  0, 2^24)>>

\* bit i of the number of the three parts
bit_of_parts(parts, i) == (parts[(i \div 24) + 1] \div 2^(i % 24)) % 2

uint64_literal(digits) ==
    [i \in Bit |-> bit_of_parts(literal_parts(digits), i)]

\* uint64_t x = 8867512362436069LL;
x_initial == uint64_literal(<<8, 8, 6, 7, 5, 1, 2, 3, 6, 2, 4, 3, 6, 0, 6, 9>>)
\* uint64_t w;  (a namespace-scope object: zero-initialised)
w_initial == [i \in Bit |-> 0]

\* the conversion of an int S to uint64_t (sign extension); |S| < 2^30 here
uint64_of_int(S) ==
    [i \in Bit |->
       IF i >= 30 THEN (IF S < 0 THEN 1 ELSE 0)
       ELSE ((IF S < 0 THEN S + 2^30 ELSE S) \div 2^i) % 2]

bit_xor(a, b) == [i \in Bit |-> (a[i] + b[i]) % 2]
shift_left(a, n) == [i \in Bit |-> IF i >= n THEN a[i - n] ELSE 0]
shift_right(a, n) == [i \in Bit |-> IF i + n <= 63 THEN a[i + n] ELSE 0]

\* t = x ^ (x << 11);
xor128_t(rx) == bit_xor(rx, shift_left(rx, 11))
\* t ^ (t >> 8)
xor128_t_mix(t) == bit_xor(t, shift_right(t, 8))
\* w ^ (w >> 19) ^ (t ^ (t >> 8))
xor128_w(rw, t) == bit_xor(bit_xor(rw, shift_right(rw, 19)), xor128_t_mix(t))
\* xor128 on the generator state r = [x, w]: x = w; return w = ...
xor128(r) == [x |-> r.w, w |-> xor128_w(r.w, xor128_t(r.x))]
\* srand(S): w = S;  (x is left as it is)
srand(r, S) == [x |-> r.x, w |-> uint64_of_int(S)]

\* byte k of a uint64_t (byte 0 the least significant)
uint64_byte(a, k) ==
    a[8 * k] + 2 * a[8 * k + 1] + 4 * a[8 * k + 2] + 8 * a[8 * k + 3]
      + 16 * a[8 * k + 4] + 32 * a[8 * k + 5] + 64 * a[8 * k + 6]
      + 128 * a[8 * k + 7]

\* a % m for a uint64_t a and a small positive m: the bytes k..7 of a, mod m
RECURSIVE uint64_mod(_, _, _)
uint64_mod(a, m, k) ==
    IF k > 7 THEN 0
    ELSE (256 * uint64_mod(a, m, k + 1) + uint64_byte(a, k)) % m

\* the integral randrange once xor128 has returned `value`:
\* xor128() % (top - bottom) + bottom
randrange_return(value, bottom, top) == uint64_mod(value, top - bottom, 0) + bottom

-----------------------------------------------------------------------------
\* class RangeSampler (graphgen.hpp).  A std::vector<int64_t> is a sequence;
\* the loop indices i and excl_idx are 0-based as in the source.

\* std::is_sorted
std_is_sorted(v) == \A i \in 1..(Len(v) - 1) : ~(v[i + 1] < v[i])

\* std::sort
RECURSIVE sort_insert(_, _)
sort_insert(v, e) ==
    IF v = <<>> THEN <<e>>
    ELSE IF e < Head(v) THEN <<e>> \o v
    ELSE <<Head(v)>> \o sort_insert(Tail(v), e)

RECURSIVE std_sort(_)
std_sort(v) ==
    IF v = <<>> THEN <<>> ELSE sort_insert(std_sort(Tail(v)), Head(v))

\* if (!std::is_sorted(excl.begin(), excl.end())) std::sort(...)
RS_sort_excl(excl) == IF ~std_is_sorted(excl) THEN std_sort(excl) ELSE excl

\* mutant: a sample that fits exactly is refused too
RS_too_many_or_exact(sample_size, min, max, excl) ==
    max - min <= sample_size + Len(excl)

\* if (max - min < int64_t(sample_size + excl.size())) throw
RS_too_many(sample_size, min, max, excl) == max - min < sample_size + Len(excl)

\* mutant: the range of the raw draws is one value longer
RS_top_longer(sample_size, max, excl) == max - sample_size - Len(excl) + 2

\* auto top = max - sample_size - excl.size() + 1;
RS_top(sample_size, max, excl) == max - sample_size - Len(excl) + 1

\* randrange(min, top) once xor128 has returned a value congruent to `raw`
\* modulo top - min
RS_randrange(raw, bottom, top) == (raw % (top - bottom)) + bottom

\* mutant: the while loop compares with < so that an excluded value equal
\* to the shifted sample is not jumped over
RECURSIVE RS_while_strict(_, _, _, _)
RS_while_strict(excl, excl_idx, sample, i) ==
    IF excl_idx < Len(excl) /\ excl[excl_idx + 1] < sample + (i + excl_idx)
    THEN RS_while_strict(excl, excl_idx + 1, sample, i)
    ELSE excl_idx

\* while (excl_idx < excl.size() &&
\*        excl[excl_idx] <= samples[i] + int64_t(i + excl_idx)) excl_idx++;
RECURSIVE RS_while(_, _, _, _)
RS_while(excl, excl_idx, sample, i) ==
    IF excl_idx < Len(excl) /\ excl[excl_idx + 1] <= sample + (i + excl_idx)
    THEN RS_while(excl, excl_idx + 1, sample, i)
    ELSE excl_idx

\* for (size_t i = 0; i < sample_size; i++) { while ...; samples[i] += i + excl_idx; }
RECURSIVE RS_for(_, _, _, _)
RECURSIVE RS_add(_, _, _, _)
RS_for(smp, excl, i, excl_idx) ==
    IF i < Len(smp) THEN RS_add(smp, excl, i, RS_while(excl, excl_idx, smp[i + 1], i))
    ELSE smp
RS_add(smp, excl, i, excl_idx) ==
    RS_for([smp EXCEPT ![i + 1] = @ + (i + excl_idx)], excl, i + 1, excl_idx)

\* the constructor, given the values randrange returns to it
RangeSampler(sample_size, min, max, excl, draws) ==
    IF RS_too_many(sample_size, min, max, excl)
    THEN [samples |-> <<>>, exception |-> "TooManySamplesException"]
    ELSE [samples |-> RS_for(std_sort(draws), RS_sort_excl(excl), 0, 0),
          exception |-> "none"]

-----------------------------------------------------------------------------
\* class DisjointSet (graphgen.hpp).  The arrays parent and rank are
\* functions on 0..N-1.

\* DisjointSet(N)
DisjointSet(N) == [parent |-> [i \in 0..(N - 1) |-> i],
                   rank |-> [i \in 0..(N - 1) |-> 0]]

\* size()
DS_size(p) == Cardinality(DOMAIN p)

\* return parent[a] = find(parent[a]);
find_assign(r, a) == [parent |-> [r.parent EXCEPT ![a] = r.ret], ret |-> r.ret]

\* mutant: find returns the parent of a instead of the root
find_one_step(p, a) == [parent |-> p, ret |-> p[a]]

\* find(a), on the array p: the array after the call and the value returned
RECURSIVE DS_find(_, _)
DS_find(p, a) ==
    IF p[a] = a THEN [parent |-> p, ret |-> a]
    ELSE find_assign(DS_find(p, p[a]), a)

\* mutant: merge never raises a rank
merge_link_unranked(rb, rk, va, b) ==
    IF va = rb.ret THEN [parent |-> rb.parent, rank |-> rk, ret |-> FALSE]
    ELSE IF rk[va] > rk[rb.ret]
    THEN [parent |-> [rb.parent EXCEPT ![rb.ret] = va], rank |-> rk,
          ret |-> TRUE]
    ELSE [parent |-> [rb.parent EXCEPT ![va] = rb.ret], rank |-> rk,
          ret |-> TRUE]

\* mutant: merge links b itself, not its root, below the root of a
merge_link_element(rb, rk, va, b) ==
    IF va = rb.ret THEN [parent |-> rb.parent, rank |-> rk, ret |-> FALSE]
    ELSE [parent |-> [rb.parent EXCEPT ![b] = va], rank |-> rk, ret |-> TRUE]

\* if (va == vb) return false; if (rank[va] > rank[vb]) ... return true;
\* rb is find(b): the array after both finds and vb
merge_link(rb, rk, va, b) ==
    IF va = rb.ret THEN [parent |-> rb.parent, rank |-> rk, ret |-> FALSE]
    ELSE IF rk[va] > rk[rb.ret]
    THEN [parent |-> [rb.parent EXCEPT ![rb.ret] = va], rank |-> rk,
          ret |-> TRUE]
    ELSE [parent |-> [rb.parent EXCEPT ![va] = rb.ret],
          rank |-> [rk EXCEPT ![rb.ret] =
                      @ + (IF rk[va] = rk[rb.ret] THEN 1 ELSE 0)],
          ret |-> TRUE]

\* int vb = find(b);
merge_find_b(ra, rk, b) == merge_link(DS_find(ra.parent, b), rk, ra.ret, b)

\* merge(a, b): int va = find(a); ...
DS_merge(p, rk, a, b) == merge_find_b(DS_find(p, a), rk, b)

-----------------------------------------------------------------------------
\* class Graph, UndirectedGraph, DirectedGraph (graphgen.hpp).  An edge_t
\* {tail, head} is the pair <<tail, head>>; adj_list, a btree_set<edge_t>,
\* is a set of pairs, traversed in the order of operator<.

\* bool operator<(const edge_t& a, const edge_t& b)
edge_lt(a, b) == a[1] < b[1] \/ (a[1] = b[1] /\ a[2] < b[2])

\* for (edge_t e: adj_list): the elements in ascending order
RECURSIVE btree_order(_)
btree_order(S) ==
    IF S = {} THEN <<>>
    ELSE LET least == CHOOSE e \in S : \A f \in S : e = f \/ edge_lt(e, f)
         IN <<least>> \o btree_order(S \ {least})

\* round(sqrt(n)) for an integer n >= 1: the integer nearest to the square
\* root (sqrt(n) is never half-way between two integers)
round_sqrt(n) == CHOOSE t \in 0..n : t * t - t < n /\ n <= t * t + t

\* mutant: tail and head are taken for each other
U_rank_to_edge_swapped(rank) ==
    <<rank - ((round_sqrt(2 * (rank + 1)) * (round_sqrt(2 * (rank + 1)) - 1))
                 \div 2),
      round_sqrt(2 * (rank + 1))>>

\* the lambdas of UndirectedGraph::add_edges
U_is_valid(e) == e[1] > e[2]
U_edge_to_rank(e) == ((e[1] * (e[1] + 1)) \div 2) + e[2]
U_edge_of(tail, rank) == <<tail, rank - ((tail * (tail - 1)) \div 2)>>
U_rank_to_edge(rank) == U_edge_of(round_sqrt(2 * (rank + 1)), rank)
U_max_edges(N) == (N * (N - 1)) \div 2

\* the lambdas of DirectedGraph::add_edges
D_is_valid(e) == e[1] # e[2]
\* mutant: the head is not moved down past the tail
D_edge_to_rank_plain(e, N) == e[1] * (N - 1) + e[2]

\* return (uint64_t)e.tail*(vertices_no-1) + e.head - (e.head>e.tail);
D_edge_to_rank(e, N) ==
    (e[1] * (N - 1) + e[2]) - (IF e[2] > e[1] THEN 1 ELSE 0)
\* mutant: the head is moved past the tail only when it is greater
D_edge_of_strict(tail, head) == <<tail, IF head > tail THEN head + 1 ELSE head>>

\* if (e.head >= e.tail) e.head++;
D_edge_of(tail, head) == <<tail, IF head >= tail THEN head + 1 ELSE head>>
D_head_of(tail, rank, N) == D_edge_of(tail, rank - tail * (N - 1))
D_rank_to_edge(rank, N) == D_head_of(rank \div (N - 1), rank, N)
D_max_edges(N) == N * (N - 1)

\* the lambdas that add_edges of a graph of the given type passes on; the
\* lambdas of DirectedGraph::build_dag, passed on under the name
\* "build_dag", are those of UndirectedGraph::add_edges word for word
is_valid(type, e) ==
    IF type = "DirectedGraph" THEN D_is_valid(e) ELSE U_is_valid(e)
edge_to_rank(type, N, e) ==
    IF type = "DirectedGraph" THEN D_edge_to_rank(e, N)
    ELSE U_edge_to_rank(e)
rank_to_edge(type, N, rank) ==
    IF type = "DirectedGraph" THEN D_rank_to_edge(rank, N)
    ELSE U_rank_to_edge(rank)
max_edges(type, N) ==
    IF type = "DirectedGraph" THEN D_max_edges(N) ELSE U_max_edges(N)

\* mutant: the undirected graph stores the adjacency one way only
add_edge_one_way(type, adj, tail, head) == adj \cup {<<tail, head>>}

\* add_edge(tail, head) of the two classes
add_edge(type, adj, tail, head) ==
    IF type = "UndirectedGraph"
    THEN adj \cup {<<tail, head>>, <<head, tail>>}
    ELSE adj \cup {<<tail, head>>}

\* void add_edge(const edge_t& v)
add_edge_t(type, adj, v) == add_edge(type, adj, v[1], v[2])

\* for (edge_t e: adj_list) if (is_valid(e))
\*     excluded_ranks.push_back(edge_to_rank(e));
ranks_of(type, N, edges) ==
    [i \in 1..Len(edges) |-> edge_to_rank(type, N, edges[i])]
valid_edges(type, edges) ==
    SelectSeq(edges, LAMBDA e : is_valid(type, e))
excluded_ranks(type, N, adj) ==
    ranks_of(type, N, valid_edges(type, btree_order(adj)))

\* for (auto r: RangeSampler(...)) add_edge(rank_to_edge(r));
RECURSIVE add_sampled(_, _, _, _)
add_sampled(type, N, adj, smp) ==
    IF smp = <<>> THEN adj
    ELSE add_sampled(type, N,
                     add_edge_t(type, adj, rank_to_edge(type, N, Head(smp))),
                     Tail(smp))

\* add_random_edges once the sampler has been constructed (or has thrown)
add_random_edges_from(sampler, type, N, adj) ==
    IF sampler.exception # "none"
    THEN [adj_list |-> adj, exception |-> sampler.exception]
    ELSE [adj_list |-> add_sampled(type, N, adj, sampler.samples),
          exception |-> "none"]

\* the arguments of the RangeSampler that add_random_edges constructs
sampler_args(type, N, adj, edges_no) ==
    [sample_size |-> edges_no, min |-> 0, max |-> max_edges(type, N),
     excl |-> excluded_ranks(type, N, adj)]

\* add_edges(edges_no), given the values randrange returns to the sampler
add_random_edges(a, type, N, adj, draws) ==
    add_random_edges_from(
        RangeSampler(a.sample_size, a.min, a.max, a.excl, draws),
        type, N, adj)

\* what a method of Graph leaves behind: the adjacencies and the exception
\* that left it, if any
G_returned(adj, e) == [adj_list |-> adj, exception |-> e]

\* for(vertex_t v: RangeSampler(edges_no, 0, vertices_no-1))
\*     add_edge(Random::randrange(0, v+1), v+1);
\* parents[i] is what xor128 returns to the i-th randrange
RECURSIVE forest_add(_, _, _, _)
forest_add(type, adj, smp, parents) ==
    IF smp = <<>> THEN adj
    ELSE forest_add(type,
                    add_edge(type, adj,
                             RS_randrange(Head(parents), 0, Head(smp) + 1),
                             Head(smp) + 1),
                    Tail(smp), Tail(parents))

build_forest_from(sampler, type, adj, parents) ==
    IF sampler.exception # "none" THEN G_returned(adj, sampler.exception)
    ELSE G_returned(forest_add(type, adj, sampler.samples, parents), "none")

\* mutant: a forest of as many edges as vertices is let through
build_forest_too_many_strict(N, edges_no) == edges_no > N

\* if (edges_no > vertices_no - 1) throw TooManyEdgesException();
build_forest_too_many(N, edges_no) == edges_no > N - 1

\* build_forest(edges_no), given the values randrange returns to the
\* sampler (draws) and to the loop (parents)
build_forest(type, N, adj, edges_no, draws, parents) ==
    IF build_forest_too_many(N, edges_no)
    THEN G_returned(adj, "TooManyEdgesException")
    ELSE build_forest_from(RangeSampler(edges_no, 0, N - 1, <<>>, draws),
                           type, adj, parents)

\* for(vertex_t i = 0; i < vertices_no - 1; i++) add_edge(i, i+1);
RECURSIVE path_loop(_, _, _, _)
path_loop(type, N, adj, i) ==
    IF i < N - 1 THEN path_loop(type, N, add_edge(type, adj, i, i + 1), i + 1)
    ELSE adj

\* build_path()
build_path(type, N, adj) == path_loop(type, N, adj, 0)

\* build_cycle(): the loop of build_path, then add_edge(vertices_no - 1, 0)
build_cycle(type, N, adj) == add_edge(type, path_loop(type, N, adj, 0), N - 1, 0)

\* for(vertex_t i=1; i<vertices_no; i++) add_edge(0, i);
RECURSIVE star_loop(_, _, _, _)
star_loop(type, N, adj, i) ==
    IF i < N THEN star_loop(type, N, add_edge(type, adj, 0, i), i + 1)
    ELSE adj

\* build_star()
build_star(type, N, adj) == star_loop(type, N, adj, 1)

\* for(vertex_t i=1; i<vertices_no; i++) { add_edge(i-1, i); add_edge(0, i); }
RECURSIVE wheel_loop(_, _, _, _)
wheel_loop(type, N, adj, i) ==
    IF i < N
    THEN wheel_loop(type, N,
                    add_edge(type, add_edge(type, adj, i - 1, i), 0, i), i + 1)
    ELSE adj

\* build_wheel(): the loop, then add_edge(vertices_no, 0)
build_wheel(type, N, adj) == add_edge(type, wheel_loop(type, N, adj, 1), N, 0)

\* for(vertex_t i=0; i<vertices_no; i++)
\*     for(vertex_t j=i+1; j<vertices_no; j++) add_edge(i, j);
RECURSIVE clique_loop(_, _, _, _, _)
clique_loop(type, N, adj, i, j) ==
    IF i >= N THEN adj
    ELSE IF j < N
    THEN clique_loop(type, N, add_edge(type, adj, i, j), i, j + 1)
    ELSE clique_loop(type, N, adj, i + 1, i + 2)

\* build_clique()
build_clique(type, N, adj) == clique_loop(type, N, adj, 0, 1)

\* UndirectedGraph::connect().  connected_components is built on
\* vertices_no elements; `memory` is its two arrays as far as connect
\* indexes them, which is beyond their end when a stored vertex is not below
\* vertices_no.

\* the highest index connect passes to merge
connect_top(N, adj) ==
    LET used == {N - 1} \cup {e[1] : e \in adj} \cup {e[2] : e \in adj}
    IN CHOOSE t \in used : \A u \in used : u <= t

\* the arrays of DisjointSet(N) followed by the words `beyond` that lie
\* behind them
connect_memory(N, top, beyond) ==
    [parent |-> [i \in 0..top |-> IF i < N THEN i ELSE beyond.parent[i]],
     rank |-> [i \in 0..top |-> IF i < N THEN 0 ELSE beyond.rank[i]]]

\* for (edge_t e: adj_list) connected_components.merge(e.tail, e.head);
RECURSIVE connect_merge(_, _)
connect_merge(ds, edges) ==
    IF edges = <<>> \/ DS_size(ds.parent) = 0 THEN ds
    ELSE connect_merge(DS_merge(ds.parent, ds.rank, Head(edges)[1],
                                Head(edges)[2]),
                       Tail(edges))

\* for(size_t i = 1; i < vertices_no; i++)
\*     if (connected_components.merge(vertices[0], vertices[i]))
\*         repr.push_back(vertices[i]);
RECURSIVE connect_repr(_, _, _, _)
RECURSIVE connect_push(_, _, _, _)
connect_repr(ds, vertices, i, repr) ==
    IF i < Len(vertices)
    THEN connect_push(DS_merge(ds.parent, ds.rank, vertices[1],
                               vertices[i + 1]),
                      vertices, i, repr)
    ELSE repr
connect_push(merged, vertices, i, repr) ==
    connect_repr(merged, vertices, i + 1,
                 IF merged.ret THEN Append(repr, vertices[i + 1]) ELSE repr)

\* for (size_t i = 1; i < repr.size(); i++)
\*     add_edge(repr[Random::randrange(0, i)], repr[i]);
\* raws[i] is what xor128 returns to the i-th randrange
RECURSIVE connect_add(_, _, _, _, _)
connect_add(type, adj, repr, raws, i) ==
    IF i < Len(repr)
    THEN connect_add(type,
                     add_edge(type, adj,
                              repr[RS_randrange(raws[i], 0, i) + 1],
                              repr[i + 1]),
                     repr, raws, i + 1)
    ELSE adj

\* connect(), given the arrays, the shuffled vector and the random values
connect(type, adj, memory, vertices, raws) ==
    connect_add(type, adj,
                connect_repr(connect_merge(memory, btree_order(adj)),
                             vertices, 1, <<vertices[1]>>),
                raws, 1)

-----------------------------------------------------------------------------
\* The state machine.

NoOp == [op |-> "init", adj |-> NoAdjacency, int |-> 0, ret |-> 0]

\* no RangeSampler has been requested
NoArgs == [sample_size |-> 0, min |-> 0, max |-> 0, excl |-> <<>>]
SamplerIdle ==
    /\ rs_args = NoArgs
    /\ rs_draws = <<>>
    /\ samples = <<>>
    /\ constructed = FALSE

\* no DisjointSet has been constructed
DisjointSetIdle ==
    /\ ds_parent = <<>>
    /\ ds_rank = <<>>

\* the generator when the program starts
RandomInit ==
    /\ Random_x = x_initial
    /\ Random_w = w_initial
    /\ returned = <<>>

\* no Graph has been constructed
GraphIdle ==
    /\ graph_type = "none"
    /\ vertices_no = 0
    /\ adj_list = {}

\* The tree and the manager after construction, in the build `ndebug`.
TreeInit(ndebug) ==
    /\ NDEBUG = ndebug
    /\ parent = EmptyHeap.parent
    /\ left_child = EmptyHeap.left_child
    /\ right_child = EmptyHeap.right_child
    /\ subtree_size = EmptyHeap.subtree_size
    /\ left_subtree_size = EmptyHeap.left_subtree_size
    /\ adjacency = EmptyHeap.adjacency
    /\ tree_root = NULL
    /\ allocated = {}
    /\ assert_failed = 0
    /\ vertex_range_first = EmptyMap
    /\ vertex_range_last = EmptyMap
    /\ it = NULL
    /\ stored = {}
    /\ last_op = NoOp

\* The state after construction, in the build `ndebug`.
InitBuild(ndebug) ==
    /\ TreeInit(ndebug)
    /\ SamplerIdle
    /\ exception = "none"
    /\ DisjointSetIdle
    /\ RandomInit
    /\ GraphIdle

SetHeap(h) ==
    /\ parent' = h.parent
    /\ left_child' = h.left_child
    /\ right_child' = h.right_child
    /\ subtree_size' = h.subtree_size
    /\ left_subtree_size' = h.left_subtree_size
    /\ adjacency' = h.adjacency
    /\ tree_root' = h.tree_root
    /\ allocated' = h.allocated
    /\ assert_failed' = h.assert_failed

\* the program runs (no assert has aborted it)
Running == assert_failed = 0

\* the stored adjacencies
Keys(h) == {h.adjacency[x] : x \in h.allocated}

\* room for a new node within the bound of the model
CanInsert(a) == a \in Keys(Heap) \/ Cardinality(allocated) < MaxNodes

\* 1 when the adjacency is stored at the time of the call, else 0
WasStored(a) == IF a \in stored THEN 1 ELSE 0

\* a call on the tree or the manager is recorded; it touches no other object
Called(name, a, i, r) ==
    /\ last_op' = [op |-> name, adj |-> a, int |-> i, ret |-> r]
    /\ UNCHANGED <<sampler_vars, exception, ds_vars, random_vars, graph_vars>>

\* the call `name` has returned r: the heap r.h and the iterator r.ret, which
\* the caller keeps
SetReturned(r, name, a, i) ==
    /\ SetHeap(r.h)
    /\ it' = r.ret
    /\ Called(name, a, i, r.ret)

\* the call `name` has returned the number r.ret and left the heap r.h
SetValue(r, name, a, i) ==
    /\ SetHeap(r.h)
    /\ Called(name, a, i, r.ret)

\* has(a) has returned the boolean r.ret, recorded as 1 or 0
SetBoolean(r, name, a, i) ==
    /\ SetHeap(r.h)
    /\ Called(name, a, i, IF r.ret THEN 1 ELSE 0)

\* a call of the manager has returned r: the heap and the two index maps
SetManager(r) ==
    /\ SetHeap(r.h)
    /\ vertex_range_first' = r.first
    /\ vertex_range_last' = r.last

\* AdjacencyManager::insert has returned r, the iterator r.ret included
SetManagerReturned(r, name, a, i) ==
    /\ SetManager(r)
    /\ it' = r.ret
    /\ Called(name, a, i, r.ret)

\* the caller's loop has ended with r: the heap and the adjacencies visited
SetScanned(r, name, u) ==
    /\ SetHeap(r.h)
    /\ Called(name, NoAdjacency, u, Len(r.visited))

\* ---- public operations of a stand-alone AdjacencyTree ----

AT_insert(a) ==
    /\ Running /\ CanInsert(a)
    /\ SetReturned(_insert(Heap, a), "insert", a, WasStored(a))
    /\ stored' = stored \cup {a}
    /\ UNCHANGED <<NDEBUG, vertex_range_first, vertex_range_last>>

\* erase(it) with the iterator the caller holds (possibly end())
AT_erase ==
    /\ Running
    /\ SetHeap(_erase(Heap, it))
    /\ it' = NULL
    /\ Called("erase", IF it = NULL THEN NoAdjacency ELSE adjacency[it], it, 0)
    /\ stored' = IF it = NULL THEN stored ELSE stored \ {adjacency[it]}
    /\ UNCHANGED <<NDEBUG, vertex_range_first, vertex_range_last>>

AT_find(a) ==
    /\ Running
    /\ SetReturned(find(Heap, a), "find", a, WasStored(a))
    /\ UNCHANGED <<NDEBUG, vertex_range_first, vertex_range_last, stored>>

AT_has(a) ==
    /\ Running
    /\ SetBoolean(has(Heap, a), "has", a, WasStored(a))
    /\ UNCHANGED <<NDEBUG, vertex_range_first, vertex_range_last, it, stored>>

AT_lower_bound(a) ==
    /\ Running
    /\ SetReturned(_lower_bound(Heap, a), "lower_bound", a, WasStored(a))
    /\ UNCHANGED <<NDEBUG, vertex_range_first, vertex_range_last, stored>>

AT_upper_bound(a) ==
    /\ Running
    /\ SetReturned(_upper_bound(Heap, a), "upper_bound", a, WasStored(a))
    /\ UNCHANGED <<NDEBUG, vertex_range_first, vertex_range_last, stored>>

\* rank(it), for a valid iterator
AT_rank ==
    /\ Running /\ it # NULL
    /\ SetValue(_rank(Heap, it), "rank", adjacency[it], it)
    /\ UNCHANGED <<NDEBUG, vertex_range_first, vertex_range_last, it, stored>>

AT_select(k) ==
    /\ Running
    /\ LET r == _select(Heap, k)
       IN it' = r /\ Called("select", NoAdjacency, k, r)
    /\ UNCHANGED <<NDEBUG, parent, left_child, right_child, subtree_size,
                   left_subtree_size, adjacency, tree_root, allocated,
                   assert_failed, vertex_range_first, vertex_range_last, stored>>

AT_begin ==
    /\ Running
    /\ it' = tree_minimum(Heap)
    /\ Called("begin", NoAdjacency, 0, tree_minimum(Heap))
    /\ UNCHANGED <<NDEBUG, parent, left_child, right_child, subtree_size,
                   left_subtree_size, adjacency, tree_root, allocated,
                   assert_failed, vertex_range_first, vertex_range_last, stored>>

AT_end ==
    /\ Running
    /\ it' = NULL
    /\ Called("end", NoAdjacency, 0, NULL)
    /\ UNCHANGED <<NDEBUG, parent, left_child, right_child, subtree_size,
                   left_subtree_size, adjacency, tree_root, allocated,
                   assert_failed, vertex_range_first, vertex_range_last, stored>>

\* it += d; incrementing a past-the-end iterator is undefined and not done
It_plus_eq(d) ==
    /\ Running
    /\ it # NULL \/ d < 0
    /\ SetReturned(iterator_plus_eq(Heap, it, d), "+=", NoAdjacency, d)
    /\ UNCHANGED <<NDEBUG, vertex_range_first, vertex_range_last, stored>>

NextTree ==
    \/ \E a \in adjacency_t : AT_insert(a)
    \/ AT_erase
    \/ \E a \in adjacency_t : AT_find(a)
    \/ \E a \in adjacency_t : AT_has(a)
    \/ \E a \in adjacency_t : AT_lower_bound(a)
    \/ \E a \in adjacency_t : AT_upper_bound(a)
    \/ AT_rank
    \/ \E k \in 0..(MaxNodes + 1) : AT_select(k)
    \/ AT_begin
    \/ AT_end
    \/ \E d \in Delta : It_plus_eq(d)

\* A stand-alone AdjacencyTree, built with NDEBUG (assert compiled out) and
\* built with assert and KONIG_DEBUG active.
SpecTree == InitBuild(TRUE) /\ [][NextTree]_vars
SpecTreeDebug == InitBuild(FALSE) /\ [][NextTree]_vars

\* ---- public operations of an AdjacencyManager ----

AM_insert(a) ==
    /\ Running /\ CanInsert(a)
    /\ SetManagerReturned(
         AM_insert_op(Heap, vertex_range_first, vertex_range_last, a),
         "AM.insert", a, WasStored(a))
    /\ stored' = stored \cup {a}
    /\ UNCHANGED NDEBUG

\* erase(adjacency); an iterator of the caller that designated the erased
\* node is dropped
AM_erase(a) ==
    /\ Running
    /\ LET r == AM_erase_op(Heap, vertex_range_first, vertex_range_last, a)
       IN /\ SetManager(r)
          /\ it' = IF it # NULL /\ adjacency[it] = a THEN NULL ELSE it
          /\ Called("AM.erase", a, WasStored(a), 0)
    /\ stored' = stored \ {a}
    /\ UNCHANGED NDEBUG

\* erase(it), for an iterator that designates a node
AM_erase_it ==
    /\ Running /\ it # NULL
    /\ LET r == AM_erase_it_op(Heap, vertex_range_first, vertex_range_last, it)
       IN /\ SetManager(r)
          /\ it' = NULL
          /\ Called("AM.erase_it", adjacency[it], it, 0)
    /\ stored' = stored \ {adjacency[it]}
    /\ UNCHANGED NDEBUG

AM_begin ==
    /\ Running
    /\ it' = tree_minimum(Heap)
    /\ Called("AM.begin", NoAdjacency, 0, tree_minimum(Heap))
    /\ UNCHANGED <<NDEBUG, parent, left_child, right_child, subtree_size,
                   left_subtree_size, adjacency, tree_root, allocated,
                   assert_failed, vertex_range_first, vertex_range_last, stored>>

AM_end ==
    /\ Running
    /\ it' = NULL
    /\ Called("AM.end", NoAdjacency, 0, NULL)
    /\ UNCHANGED <<NDEBUG, parent, left_child, right_child, subtree_size,
                   left_subtree_size, adjacency, tree_root, allocated,
                   assert_failed, vertex_range_first, vertex_range_last, stored>>

AM_begin_vertex(u) ==
    /\ Running
    /\ it' = AM_begin_of(vertex_range_first, u)
    /\ Called("AM.begin(u)", NoAdjacency, u, AM_begin_of(vertex_range_first, u))
    /\ UNCHANGED <<NDEBUG, parent, left_child, right_child, subtree_size,
                   left_subtree_size, adjacency, tree_root, allocated,
                   assert_failed, vertex_range_first, vertex_range_last, stored>>

AM_end_vertex(u) ==
    /\ Running
    /\ SetReturned(AM_end_of(Heap, vertex_range_last, u), "AM.end(u)",
                   NoAdjacency, u)
    /\ UNCHANGED <<NDEBUG, vertex_range_first, vertex_range_last, stored>>

\* ++it and --it (operator++ is += 1, operator-- is -= 1, that is += -1)
It_increment ==
    /\ Running /\ it # NULL
    /\ SetReturned(iterator_plus_eq(Heap, it, 1), "++", NoAdjacency, 1)
    /\ UNCHANGED <<NDEBUG, vertex_range_first, vertex_range_last, stored>>

It_decrement ==
    /\ Running
    /\ SetReturned(iterator_plus_eq(Heap, it, -1), "--", NoAdjacency, -1)
    /\ UNCHANGED <<NDEBUG, vertex_range_first, vertex_range_last, stored>>

\* the caller's loop over the adjacencies of u (with an iterator of its own)
AM_scan(u) ==
    /\ Running
    /\ SetScanned(AM_range(Heap, vertex_range_first, vertex_range_last, u),
                  "AM.scan", u)
    /\ UNCHANGED <<NDEBUG, vertex_range_first, vertex_range_last, it, stored>>

\* the caller takes AM.end(u) - AM.begin(u)
AM_distance(u) ==
    /\ Running
    /\ SetValue(AM_distance_op(Heap, vertex_range_first, vertex_range_last, u),
                "AM.distance", NoAdjacency, u)
    /\ UNCHANGED <<NDEBUG, vertex_range_first, vertex_range_last, it, stored>>

NextManager ==
    \/ \E a \in AM_adjacency_t : AM_insert(a)
    \/ \E a \in AM_adjacency_t : AM_erase(a)
    \/ AM_erase_it
    \/ AM_begin
    \/ AM_end
    \/ \E u \in 0..MaxTail : AM_begin_vertex(u)
    \/ \E u \in 0..MaxTail : AM_end_vertex(u)
    \/ \E u \in 0..MaxTail : AM_scan(u)
    \/ \E u \in 0..MaxTail : AM_distance(u)
    \/ It_increment
    \/ It_decrement

SpecManager == InitBuild(TRUE) /\ [][NextManager]_vars
SpecManagerDebug == InitBuild(FALSE) /\ [][NextManager]_vars

-----------------------------------------------------------------------------
\* A caller of RangeSampler: it has chosen the arguments and constructs
\* the sampler once.

\* the vectors of at most n elements of S
Vectors(S, n) == UNION {[1..k -> S] : k \in 0..n}

\* the arguments: any sample size, any range, any exclusion vector of values
\* of min..max (sorted or not, the value max and repetitions included)
RS_Args ==
    {a \in [sample_size : 0..MaxSample, min : 0..MaxMin,
            max : 0..(MaxMin + MaxSpan),
            excl : Vectors(0..(MaxMin + MaxSpan), MaxExcl)] :
        /\ a.min <= a.max /\ a.max - a.min <= MaxSpan
        /\ \A i \in 1..Len(a.excl) : a.excl[i] \in a.min..a.max}

InitSampler ==
    /\ TreeInit(TRUE)
    /\ rs_args \in RS_Args
    /\ rs_draws = <<>>
    /\ samples = <<>>
    /\ constructed = FALSE
    /\ exception = "none"
    /\ DisjointSetIdle
    /\ RandomInit
    /\ GraphIdle

\* what xor128 can return to the constructor: every residue modulo
\* top - min, and one value that the modulus wraps
RS_Raw(a) == 0..(RS_top(a.sample_size, a.max, a.excl) - a.min)

\* samples[i] = Random::randrange(min, top);
RS_draw(a, raw) ==
    [i \in 1..a.sample_size |->
       RS_randrange(raw[i], a.min, RS_top(a.sample_size, a.max, a.excl))]

SetSampler(r, draws) ==
    /\ rs_draws' = draws
    /\ samples' = r.samples
    /\ exception' = r.exception
    /\ constructed' = TRUE
    /\ UNCHANGED <<rs_args, tree_vars, ds_vars, random_vars, graph_vars>>

RS_constructed(a, draws) ==
    SetSampler(RangeSampler(a.sample_size, a.min, a.max, a.excl, draws), draws)

\* RangeSampler(sample_size, min, max, excl)
RS_construct ==
    /\ ~constructed
    /\ IF RS_too_many(rs_args.sample_size, rs_args.min, rs_args.max, rs_args.excl)
       THEN RS_constructed(rs_args, <<>>)
       ELSE \E raw \in [1..rs_args.sample_size -> RS_Raw(rs_args)] :
              RS_constructed(rs_args, RS_draw(rs_args, raw))

NextSampler == RS_construct

SpecSampler == InitSampler /\ [][NextSampler]_vars

-----------------------------------------------------------------------------
\* The Python type DisjointSet (src/konig.cpp): its methods find and merge,
\* called on an object constructed with any N.

InitDisjointSet ==
    /\ TreeInit(TRUE)
    /\ SamplerIdle
    /\ exception = "none"
    /\ \E N \in 0..MaxElements :
         /\ ds_parent = DisjointSet(N).parent
         /\ ds_rank = DisjointSet(N).rank
    /\ RandomInit
    /\ GraphIdle

\* the arguments a caller may pass: every valid index and one that is not
Index == 0..MaxElements

\* a call of a DisjointSet method is recorded; it touches no other object
DS_called(name, a, b, r) ==
    /\ last_op' = [op |-> name, adj |-> <<a, b>>, int |-> 0, ret |-> r]
    /\ UNCHANGED <<heap_vars, sampler_vars, random_vars, graph_vars>>

\* mutant: the call returns without an error (and without touching the arrays)
DS_return_silently(name, a, b) ==
    /\ exception' = "none"
    /\ UNCHANGED ds_vars
    /\ DS_called(name, a, b, 0)

\* PyErr_SetString(PyExc_ValueError, ...); return NULL;
DS_raise(name, a, b) ==
    /\ exception' = "ValueError"
    /\ UNCHANGED ds_vars
    /\ DS_called(name, a, b, 0)

DS_find_returned(r, a) ==
    /\ ds_parent' = r.parent
    /\ UNCHANGED ds_rank
    /\ exception' = "none"
    /\ DS_called("DisjointSet.find", a, a, r.ret)

\* DisjointSet_find
DisjointSet_find(a) ==
    IF a < 0 \/ a >= DS_size(ds_parent)
    THEN DS_raise("DisjointSet.find", a, a)
    ELSE DS_find_returned(DS_find(ds_parent, a), a)

DS_merge_returned(r, a, b) ==
    /\ ds_parent' = r.parent
    /\ ds_rank' = r.rank
    /\ exception' = "none"
    /\ DS_called("DisjointSet.merge", a, b, IF r.ret THEN 1 ELSE 0)

\* DisjointSet_merge
DisjointSet_merge(a, b) ==
    IF a >= DS_size(ds_parent) \/ b >= DS_size(ds_parent)
    THEN DS_raise("DisjointSet.merge", a, b)
    ELSE DS_merge_returned(DS_merge(ds_parent, ds_rank, a, b), a, b)

NextDisjointSet ==
    \/ \E a \in Index : DisjointSet_find(a)
    \/ \E a \in Index : \E b \in Index : DisjointSet_merge(a, b)

SpecDisjointSet == InitDisjointSet /\ [][NextDisjointSet]_vars

-----------------------------------------------------------------------------
\* A program that seeds the generator (the module function srand of
\* src/konig.cpp) and draws from it (Random::xor128) in any order.

\* the seeds passed to srand
Seed == {0 - 1, 0, 1, 2}

\* the generator as one value
Generator == [x |-> Random_x, w |-> Random_w]

\* the generator is left in the state r; the call is recorded
SetGenerator(r, name, value) ==
    /\ Random_x' = r.x
    /\ Random_w' = r.w
    /\ returned' = Append(returned, [call |-> name, value |-> value])
    /\ UNCHANGED <<tree_vars, sampler_vars, exception, ds_vars, graph_vars>>

\* GG_srand: Random::srand(s)
GG_srand(S) ==
    /\ Len(returned) < MaxCalls
    /\ SetGenerator(srand(Generator, S), "srand", uint64_of_int(S))

xor128_returned(r) == SetGenerator(r, "xor128", r.w)

\* Random::xor128()
Random_xor128 ==
    /\ Len(returned) < MaxCalls
    /\ xor128_returned(xor128(Generator))

NextRandom ==
    \/ \E S \in Seed : GG_srand(S)
    \/ Random_xor128

SpecRandom == InitBuild(TRUE) /\ [][NextRandom]_vars

-----------------------------------------------------------------------------
\* A graph of either class on 1..MaxVertices vertices, to which a caller
\* adds edges between distinct vertices one by one (add_edge) or at random
\* (add_edges).

InitGraph ==
    /\ TreeInit(TRUE)
    /\ SamplerIdle
    /\ exception = "none"
    /\ DisjointSetIdle
    /\ RandomInit
    /\ graph_type \in {"UndirectedGraph", "DirectedGraph"}
    /\ vertices_no \in 1..MaxVertices
    /\ adj_list = {}

\* a call on the graph is recorded; it touches no other object
G_called(name, a, b, n) ==
    /\ last_op' = [op |-> name, adj |-> <<a, b>>, int |-> n, ret |-> 0]
    /\ UNCHANGED <<heap_vars, sampler_vars, ds_vars, random_vars,
                   graph_type, vertices_no>>

\* the process has not been killed
G_alive == exception # "SIGSEGV"

\* add_edge(a, b)
G_add_edge(a, b) ==
    /\ G_alive
    /\ a # b
    /\ adj_list' = add_edge(graph_type, adj_list, a, b)
    /\ exception' = "none"
    /\ G_called("add_edge", a, b, 0)

G_add_edges_returned(r, edges_no) ==
    /\ adj_list' = r.adj_list
    /\ exception' = r.exception
    /\ G_called("add_edges", 0, 0, edges_no)

G_add_edges_drawn(a, draws) ==
    G_add_edges_returned(
        add_random_edges(a, graph_type, vertices_no, adj_list, draws),
        a.sample_size)

G_add_edges_args(a) ==
    IF RS_too_many(a.sample_size, a.min, a.max, a.excl)
    THEN G_add_edges_drawn(a, <<>>)
    ELSE \E raw \in [1..a.sample_size -> RS_Raw(a)] :
           G_add_edges_drawn(a, RS_draw(a, raw))

\* add_edges(edges_no)
G_add_edges(edges_no) ==
    /\ G_alive
    /\ G_add_edges_args(sampler_args(graph_type, vertices_no, adj_list,
                                     edges_no))

\* a method of Graph has returned or thrown
G_method_returned(r, name, n) ==
    /\ adj_list' = r.adj_list
    /\ exception' = r.exception
    /\ G_called(name, 0, 0, n)

\* what randrange(0, top) can return to the sampler of build_forest: the
\* values of [0, vertices_no - edges_no), none when that range is empty
ForestDraws(edges_no) ==
    IF edges_no > vertices_no - 1 THEN {<<>>}
    ELSE [1..edges_no -> 0..(vertices_no - 1 - edges_no)]

G_build_dag_args(a) ==
    IF RS_too_many(a.sample_size, a.min, a.max, a.excl)
    THEN G_method_returned(
             add_random_edges(a, "build_dag", vertices_no, adj_list, <<>>),
             "build_dag", a.sample_size)
    ELSE \E raw \in [1..a.sample_size -> RS_Raw(a)] :
           G_method_returned(
               add_random_edges(a, "build_dag", vertices_no, adj_list,
                                RS_draw(a, raw)),
               "build_dag", a.sample_size)

\* build_dag(edges_no), a method of DirectedGraph only
G_build_dag(edges_no) ==
    /\ G_alive
    /\ graph_type = "DirectedGraph"
    /\ G_build_dag_args(sampler_args("build_dag", vertices_no, adj_list,
                                     edges_no))

\* build_forest(edges_no) under the given name
G_forest(name, edges_no) ==
    /\ G_alive
    /\ \E draws \in ForestDraws(edges_no) :
       \E parents \in [1..Len(draws) -> 0..(vertices_no - 1)] :
         G_method_returned(
             build_forest(graph_type, vertices_no, adj_list, edges_no,
                          draws, parents),
             name, edges_no)

\* build_forest(edges_no)
G_build_forest(edges_no) == G_forest("build_forest", edges_no)

\* build_tree() { build_forest(vertices_no - 1); }
G_build_tree == G_forest("build_tree", vertices_no - 1)

\* build_path()
G_build_path ==
    /\ G_alive
    /\ G_method_returned(
           G_returned(build_path(graph_type, vertices_no, adj_list), "none"),
           "build_path", 0)

\* build_cycle()
G_build_cycle ==
    /\ G_alive
    /\ G_method_returned(
           G_returned(build_cycle(graph_type, vertices_no, adj_list), "none"),
           "build_cycle", 0)

\* build_star()
G_build_star ==
    /\ G_alive
    /\ G_method_returned(
           G_returned(build_star(graph_type, vertices_no, adj_list), "none"),
           "build_star", 0)

\* build_wheel()
G_build_wheel ==
    /\ G_alive
    /\ G_method_returned(
           G_returned(build_wheel(graph_type, vertices_no, adj_list), "none"),
           "build_wheel", 0)

\* build_clique()
G_build_clique ==
    /\ G_alive
    /\ G_method_returned(
           G_returned(build_clique(graph_type, vertices_no, adj_list), "none"),
           "build_clique", 0)

\* every stored vertex is an index of the arrays of DisjointSet(vertices_no)
G_in_range == \A e \in adj_list : e[1] < vertices_no /\ e[2] < vertices_no

\* what std::random_shuffle can make of 0, 1, ..., vertices_no - 1
Shuffled ==
    {v \in [1..vertices_no -> 0..(vertices_no - 1)] :
        \A i \in 1..vertices_no : \A j \in 1..vertices_no :
            v[i] = v[j] => i = j}

\* what xor128 can return to the randrange calls of connect
ConnectRaws == [1..(vertices_no - 1) -> 0..(vertices_no - 1)]

\* the words behind the arrays of connected_components that connect can
\* reach: an index of the words reached, at or below the word's own, and a
\* small rank
Beyond(top) ==
    {b \in [parent : [vertices_no..top -> 0..top],
            rank : [vertices_no..top -> 0..1]] :
        \A i \in vertices_no..top : b.parent[i] <= i}

G_connect_from(memory) ==
    \E vertices \in Shuffled : \E raws \in ConnectRaws :
        G_method_returned(
            G_returned(connect(graph_type, adj_list, memory, vertices, raws),
                       "none"),
            "connect", 0)

\* connect() of an undirected graph.  With a stored vertex that is not
\* below vertices_no, find and merge read and write behind the arrays (the
\* behaviour is undefined): the words there are anything, and the process
\* goes on with them or is killed.
G_connect_undirected ==
    IF G_in_range THEN G_connect_from(DisjointSet(vertices_no))
    ELSE \/ \E beyond \in Beyond(connect_top(vertices_no, adj_list)) :
              G_connect_from(connect_memory(vertices_no,
                                 connect_top(vertices_no, adj_list), beyond))
         \/ G_method_returned(G_returned(adj_list, "SIGSEGV"), "connect", 0)

\* connect(): DirectedGraph throws NotImplementedException
G_connect ==
    /\ G_alive
    /\ IF graph_type = "UndirectedGraph" THEN G_connect_undirected
       ELSE G_method_returned(
                G_returned(adj_list, "NotImplementedException"), "connect", 0)

NextGraph ==
    \/ \E a \in 0..(vertices_no - 1) : \E b \in 0..(vertices_no - 1) :
         G_add_edge(a, b)
    \/ \E edges_no \in 0..MaxEdgesNo : G_add_edges(edges_no)
    \/ G_connect
    \/ G_build_path
    \/ G_build_cycle
    \/ G_build_star
    \/ G_build_wheel
    \/ G_build_clique
    \/ \E edges_no \in 0..MaxEdgesNo : G_build_forest(edges_no)
    \/ G_build_tree
    \/ \E edges_no \in 0..MaxEdgesNo : G_build_dag(edges_no)

SpecGraph == InitGraph /\ [][NextGraph]_vars

-----------------------------------------------------------------------------
\* The lambdas edge_to_rank and rank_to_edge that add_edges hands to
\* add_random_edges, applied on their own to every valid edge and to every
\* rank of [0, max_edges) of a graph on 1..MaxRankVertices vertices.

InitRank ==
    /\ TreeInit(TRUE)
    /\ SamplerIdle
    /\ exception = "none"
    /\ DisjointSetIdle
    /\ RandomInit
    /\ graph_type \in {"UndirectedGraph", "DirectedGraph"}
    /\ vertices_no \in 1..MaxRankVertices
    /\ adj_list = {}

\* the edges on which is_valid holds: what edge_to_rank is applied to
ValidEdges(type, N) ==
    {e \in (0..(N - 1)) \X (0..(N - 1)) : is_valid(type, e)}

\* an application is recorded with the edge and the rank it relates
R_applied(name, e, rank) ==
    /\ last_op' = [op |-> name, adj |-> e, int |-> rank, ret |-> 0]
    /\ UNCHANGED <<heap_vars, sampler_vars, exception, ds_vars, random_vars,
                   graph_vars>>

\* edge_to_rank(e)
R_edge_to_rank(e) ==
    R_applied("edge_to_rank", e, edge_to_rank(graph_type, vertices_no, e))

\* rank_to_edge(rank)
R_rank_to_edge(rank) ==
    R_applied("rank_to_edge", rank_to_edge(graph_type, vertices_no, rank), rank)

NextRank ==
    \/ \E e \in ValidEdges(graph_type, vertices_no) : R_edge_to_rank(e)
    \/ \E rank \in 0..(max_edges(graph_type, vertices_no) - 1) :
         R_rank_to_edge(rank)

SpecRank == InitRank /\ [][NextRank]_vars

-----------------------------------------------------------------------------
\* UndirectedGraph_add_edge and DirectedGraph_add_edge of the Python module
\* (konig.cpp): add_edge called with any two numbers, the vertices of the
\* graph and the first number that is none, on a graph of 1..MaxCallVertices
\* vertices.

InitAddEdge ==
    /\ TreeInit(TRUE)
    /\ SamplerIdle
    /\ exception = "none"
    /\ DisjointSetIdle
    /\ RandomInit
    /\ graph_type \in {"UndirectedGraph", "DirectedGraph"}
    /\ vertices_no \in 1..MaxCallVertices
    /\ adj_list = {}

\* try { self->g->add_edge(a, b); } CATCH(NULL)  Py_RETURN_NONE;
Graph_add_edge(a, b) ==
    /\ adj_list' = add_edge(graph_type, adj_list, a, b)
    /\ exception' = "none"
    /\ G_called("add_edge", a, b, 0)

NextAddEdge ==
    \E a \in 0..vertices_no : \E b \in 0..vertices_no : Graph_add_edge(a, b)

SpecAddEdge == InitAddEdge /\ [][NextAddEdge]_vars

-----------------------------------------------------------------------------
\* An undirected graph on 1..MaxConnectVertices vertices to which a caller
\* adds edges between distinct vertices and which it connects.

InitConnect ==
    /\ TreeInit(TRUE)
    /\ SamplerIdle
    /\ exception = "none"
    /\ DisjointSetIdle
    /\ RandomInit
    /\ graph_type = "UndirectedGraph"
    /\ vertices_no \in 1..MaxConnectVertices
    /\ adj_list = {}

NextConnect ==
    \/ \E a \in 0..(vertices_no - 1) : \E b \in 0..(vertices_no - 1) :
         G_add_edge(a, b)
    \/ G_connect

SpecConnect == InitConnect /\ [][NextConnect]_vars

-----------------------------------------------------------------------------
\* What the claims speak of: the in-order traversal, positions, sorted sets.

\* the nodes of the subtree of x in in-order (fuel bounds the depth)
RECURSIVE in_order(_, _, _)
in_order(h, x, fuel) ==
    IF x = NULL \/ fuel = 0 THEN <<>>
    ELSE in_order(h, h.left_child[x], fuel - 1) \o <<x>>
         \o in_order(h, h.right_child[x], fuel - 1)

InOrderNodes(h) == in_order(h, h.tree_root, Cardinality(Node) + 1)

InOrderKeys(h) ==
    LET ns == InOrderNodes(h) IN [i \in 1..Len(ns) |-> h.adjacency[ns[i]]]

\* the lexicographic order on (u, v), stated for the claims
LexLess(a, b) == a[1] < b[1] \/ (a[1] = b[1] /\ a[2] < b[2])
LexLeq(a, b) == a = b \/ LexLess(a, b)

StrictlyIncreasing(seq) ==
    \A i \in 1..(Len(seq) - 1) : LexLess(seq[i], seq[i + 1])

SeqRange(seq) == {seq[i] : i \in 1..Len(seq)}

\* the elements of a set of adjacencies in ascending lexicographic order
RECURSIVE Sorted(_)
Sorted(S) ==
    IF S = {} THEN <<>>
    ELSE LET m == CHOOSE x \in S : \A y \in S : x = y \/ LexLess(x, y)
         IN <<m>> \o Sorted(S \ {m})

\* the node that holds adjacency a, NULL when none does
NodeOf(h, a) ==
    IF \E x \in h.allocated : h.adjacency[x] = a
    THEN CHOOSE x \in h.allocated : h.adjacency[x] = a
    ELSE NULL

\* the node holding the smallest adjacency of S satisfying P, NULL when none
LeastNode(h, S) ==
    IF S = {} THEN NULL ELSE NodeOf(h, Sorted(S)[1])

\* the 1-based in-order position of node x
PositionOf(h, x) ==
    LET ns == InOrderNodes(h) IN CHOOSE i \in 1..Len(ns) : ns[i] = x

\* C1: after any sequence of insert and erase calls on an AdjacencyTree the
\* in-order traversal is strictly increasing in lexicographic order, holds
\* exactly the adjacencies inserted and not since erased, each once, and
\* size() is the number of those adjacencies.
C1_OrderedSet ==
    LET keys == InOrderKeys(Heap)
    IN /\ StrictlyIncreasing(keys)
       /\ SeqRange(keys) = stored
       /\ Len(keys) = Cardinality(stored)
       /\ size(Heap) = Cardinality(stored)

C1_Witness ==
    /\ last_op.op = "erase" /\ last_op.int # NULL
    /\ Cardinality(stored) = MaxNodes - 1
    /\ \E a \in stored, b \in stored : a[1] # b[1]

\* subtree_size of a child, an absent child counting 0
SizeOf(h, x) == IF x = NULL THEN 0 ELSE h.subtree_size[x]

\* C2: after every public operation of an AdjacencyTree every node x has
\* subtree_size(x) = 1 + subtree_size(left(x)) + subtree_size(right(x)) and
\* left_subtree_size(x) = subtree_size(left(x)), an absent child counting 0.
C2_Augmentation ==
    \A x \in allocated :
        /\ subtree_size[x] = 1 + SizeOf(Heap, left_child[x])
                               + SizeOf(Heap, right_child[x])
        /\ left_subtree_size[x] = SizeOf(Heap, left_child[x])

C2_Witness ==
    /\ last_op.op \in {"find", "lower_bound", "upper_bound", "rank", "+="}
    /\ Cardinality(allocated) = MaxNodes
    /\ tree_root # NULL
    /\ left_child[tree_root] # NULL /\ right_child[tree_root] # NULL

\* select(rank(x)), r being what rank(x) returned
SelectOfRank(r) == _select(r.h, r.ret)

\* C3: in any reachable state of a tree of size n, rank(select(k)) = k for
\* every k in 1..n, select(rank(x)) = x for every stored node x, and
\* select(k) is past-the-end (NULL) for every k outside 1..n.
C3_RankSelect ==
    LET n == size(Heap)
    IN /\ \A k \in 1..n :
            /\ _select(Heap, k) # NULL
            /\ _rank(Heap, _select(Heap, k)).ret = k
       /\ \A x \in allocated :
            SelectOfRank(_rank(Heap, x)) = x
       /\ \A k \in (0 - 1)..(MaxNodes + 2) :
            (k < 1 \/ k > n) => _select(Heap, k) = NULL

C3_Witness ==
    /\ last_op.op = "rank" /\ last_op.ret = MaxNodes
    /\ size(Heap) = MaxNodes

\* the adjacencies of S with first endpoint u
OfTail(S, u) == {a \in S : a[1] = u}

\* C4: after any sequence of insert and erase calls on an AdjacencyManager,
\* for every vertex u: when some stored adjacency has first endpoint u,
\* vertex_range_first[u] designates the smallest and vertex_range_last[u]
\* the largest stored adjacency with first endpoint u; when none has,
\* neither map has an entry for u.
C4_RangeIndex ==
    \A u \in 0..MaxTail :
        LET S == OfTail(stored, u)
        IN IF S # {}
           THEN /\ u \in DOMAIN vertex_range_first
                /\ u \in DOMAIN vertex_range_last
                /\ vertex_range_first[u] \in allocated
                /\ vertex_range_last[u] \in allocated
                /\ adjacency[vertex_range_first[u]] = Sorted(S)[1]
                /\ adjacency[vertex_range_last[u]] = Sorted(S)[Cardinality(S)]
           ELSE /\ u \notin DOMAIN vertex_range_first
                /\ u \notin DOMAIN vertex_range_last

C4_Witness ==
    /\ last_op.op \in {"AM.erase", "AM.erase_it"}
    /\ last_op.adj[1] = 0 /\ last_op.adj \notin stored
    /\ Cardinality(OfTail(stored, 0)) = 2
    /\ LexLess(last_op.adj, adjacency[vertex_range_first[0]])
    /\ OfTail(stored, 1) = {}

\* the loop r has ended and has visited the set S in ascending order
VisitsInOrder(r, S) == r.ok /\ r.visited = Sorted(S)

SameTree(h) ==
    /\ size(h) = size(Heap)
    /\ InOrderKeys(h) = InOrderKeys(Heap)
    /\ h.allocated = allocated

\* the manager state m holds the tree and the index of the current state
SameManager(m) ==
    /\ SameTree(m.h)
    /\ m.first = vertex_range_first
    /\ m.last = vertex_range_last

\* an insert of the stored adjacency a has returned t (tree), m (manager)
TreeReturnsExisting(t, a) == SameTree(t.h) /\ t.ret = NodeOf(Heap, a)

ManagerReturnsExisting(m, a) == SameManager(m) /\ m.ret = NodeOf(Heap, a)

\* C6: inserting an adjacency that is already stored is an idempotent no-op:
\* for the tree and for the manager, size(), the in-order sequence of keys
\* and the manager's first/last index entries are as before the call, and
\* the returned iterator designates the node that already existed.
C6_DuplicateInsert ==
    \A a \in stored :
        /\ TreeReturnsExisting(_insert(Heap, a), a)
        /\ ManagerReturnsExisting(
             AM_insert_op(Heap, vertex_range_first, vertex_range_last, a), a)

C6_Witness ==
    /\ last_op.op = "AM.insert" /\ last_op.int = 1
    /\ Cardinality(stored) = MaxNodes
    /\ last_op.ret = it /\ it # tree_minimum(Heap) /\ it # tree_maximum(Heap)

\* C7: no assertion of AdjacencyTree or AdjacencyManager fails during any
\* sequence of insert, find and erase calls with valid arguments; erasing a
\* stored adjacency completes normally also when it is the only one left.
C7_NoAssertionFails == assert_failed = 0

\* erase(find(a)): f is what find returned
EraseFoundIsNoOp(f) == f.ret = NULL /\ SameTree(_erase(f.h, f.ret))

\* C8: erasing an adjacency that is not stored is a no-op: the tree's
\* erase(find(a)) and the manager's erase(a), with a absent, leave size(),
\* the stored keys and the manager index unchanged.
C8_EraseAbsent ==
    \A a \in AM_adjacency_t \ stored :
        /\ EraseFoundIsNoOp(find(Heap, a))
        /\ SameManager(
             AM_erase_op(Heap, vertex_range_first, vertex_range_last, a))

C8_Witness ==
    /\ last_op.op = "AM.erase" /\ last_op.int = 0
    /\ Cardinality(stored) = MaxNodes
    /\ \E a \in stored : LexLess(last_op.adj, a)
    /\ \E a \in stored : LexLess(a, last_op.adj)

\* C9: in any reachable state of a tree holding the key set S and for every
\* adjacency a: find(a) designates a when a is in S and is end() otherwise;
\* lower_bound(a) designates the smallest key of S that is >= a and
\* upper_bound(a) the smallest key of S that is > a, each end() when there
\* is no such key.
C9_Search ==
    \A a \in adjacency_t :
        /\ find(Heap, a).ret = (IF a \in stored THEN NodeOf(Heap, a) ELSE NULL)
        /\ has(Heap, a).ret = (a \in stored)
        /\ _lower_bound(Heap, a).ret
             = LeastNode(Heap, {k \in stored : LexLeq(a, k)})
        /\ _upper_bound(Heap, a).ret
             = LeastNode(Heap, {k \in stored : LexLess(a, k)})

C9_Witness ==
    /\ last_op.op = "upper_bound" /\ last_op.int = 1
    /\ last_op.ret # NULL /\ Cardinality(stored) = MaxNodes
    /\ LexLess(last_op.adj, adjacency[last_op.ret])
    /\ \E a \in stored : LexLess(a, last_op.adj)

\* the node at in-order position k, NULL when k is not a position
PositionOrNull(h, k) ==
    IF 1 <= k /\ k <= Len(InOrderNodes(h)) THEN InOrderNodes(h)[k] ELSE NULL

\* C10: for an iterator at in-order position r of a tree of size n, it += d
\* designates the node at position r + d when 1 <= r + d <= n and is
\* past-the-end otherwise; decrementing a past-the-end iterator of a
\* non-empty tree once yields the tree maximum.
C10_Advance ==
    LET ns == InOrderNodes(Heap)
        n == Len(ns)
    IN /\ \A x \in allocated : \A d \in Delta :
            iterator_plus_eq(Heap, x, d).ret
              = PositionOrNull(Heap, PositionOf(Heap, x) + d)
       /\ n > 0 => iterator_plus_eq(Heap, NULL, 0 - 1).ret = ns[n]

C10_Witness ==
    /\ last_op.op = "+=" /\ last_op.int = 0 - MaxDelta
    /\ last_op.ret # NULL /\ it = tree_minimum(Heap)
    /\ size(Heap) = MaxNodes

\* the 0-based in-order position an iterator stands for, past-the-end being
\* the position just after the maximum
IteratorPosition(h, sv) ==
    IF sv = NULL THEN Len(InOrderNodes(h)) ELSE PositionOf(h, sv) - 1

C12_IteratorStability ==
    [][\A x \in allocated :
          \/ x \in allocated' /\ adjacency'[x] = adjacency[x]
          \/ adjacency[x] \in stored /\ adjacency[x] \notin stored']_vars

C12_Witness ==
    /\ last_op.op = "erase" /\ last_op.int # NULL
    /\ last_op.int \notin allocated
    /\ Cardinality(allocated) = MaxNodes - 1
    /\ \A a \in stored : NodeOf(Heap, a) = new_vertex_id(EmptyHeap, a)
    /\ tree_root # NULL /\ left_child[tree_root] # NULL

\* the values of a vector of integers
Values(v) == {v[i] : i \in 1..Len(v)}

\* the exclusion list holds distinct values of [min, max)
ValidExcl(a) ==
    /\ \A i \in 1..Len(a.excl) : a.min <= a.excl[i] /\ a.excl[i] < a.max
    /\ \A i \in 1..Len(a.excl) : \A j \in 1..Len(a.excl) :
         i # j => a.excl[i] # a.excl[j]

\* the requested sample fits in what the exclusion list leaves of the range
Fits(a) == a.max - a.min - Len(a.excl) >= a.sample_size

\* C13: for every K, lo, hi and exclusion list E of distinct values of
\* [lo, hi), sorted or not, with hi - lo - |E| >= K, and whatever the K draws
\* are, the constructed sampler holds exactly K values, strictly increasing,
\* all in [lo, hi) and none in E (the empty sequence when K = 0).
C13_SamplerOutput ==
    (constructed /\ ValidExcl(rs_args) /\ Fits(rs_args)) =>
        /\ Len(samples) = rs_args.sample_size
        /\ \A i \in 1..(Len(samples) - 1) : samples[i] < samples[i + 1]
        /\ \A i \in 1..Len(samples) :
             /\ rs_args.min <= samples[i] /\ samples[i] < rs_args.max
             /\ samples[i] \notin Values(rs_args.excl)
        /\ (rs_args.sample_size = 0 => samples = <<>>)

\* an unsorted exclusion list, two draws that collide, and a shifted sample
\* that lands on an excluded value and is moved past it
C13_Witness ==
    /\ constructed /\ ValidExcl(rs_args) /\ Fits(rs_args)
    /\ rs_args.sample_size = 2 /\ rs_args.min = 1 /\ rs_args.max = 6
    /\ rs_args.excl = <<4, 2>>
    /\ rs_draws = <<1, 1>>
    /\ samples = <<1, 3>>

\* C14: RangeSampler(K, lo, hi, E) fails with the TooManySamples error
\* exactly when hi - lo - |E| < K, and constructs a sample in every other
\* case.
C14_TooManySamples ==
    constructed =>
        /\ (exception = "TooManySamplesException") = ~Fits(rs_args)
        /\ (exception = "none") = Fits(rs_args)
        /\ Fits(rs_args) => Len(samples) = rs_args.sample_size

\* one sample too many for what the exclusion list leaves
C14_Witness ==
    /\ constructed /\ exception = "TooManySamplesException"
    /\ ValidExcl(rs_args) /\ Len(rs_args.excl) = 2
    /\ rs_args.sample_size >= 2
    /\ rs_args.max - rs_args.min - Len(rs_args.excl) = rs_args.sample_size - 1

\* the values the sampler may deliver: [min, max) without the excluded ones
Complement(a) == (a.min..(a.max - 1)) \ Values(a.excl)

\* the K-element subsets of the complement
SubsetsOfSize(a) ==
    {A \in SUBSET Complement(a) : Cardinality(A) = a.sample_size}

\* the equally likely outcomes of the K calls of randrange(min, top)
DrawTuples(a) ==
    [1..a.sample_size ->
        a.min..(RS_top(a.sample_size, a.max, a.excl) - 1)]

\* the outcomes of the draws for which the sampler delivers the subset A
TuplesGiving(a, A) ==
    {d \in DrawTuples(a) :
        Values(RangeSampler(a.sample_size, a.min, a.max, a.excl, d).samples) = A}

\* C15: the sampler is uniform: counted over all equally likely K-tuples of
\* draws, every K-element subset of the complement of E is produced by the
\* same number of tuples.
C15_Uniform ==
    (constructed /\ ValidExcl(rs_args) /\ Fits(rs_args)) =>
        \A A \in SubsetsOfSize(rs_args) : \A B \in SubsetsOfSize(rs_args) :
            Cardinality(TuplesGiving(rs_args, A))
                = Cardinality(TuplesGiving(rs_args, B))

\* the root that the parent pointers lead to from i (fuel bounds the walk)
RECURSIVE RootOf(_, _, _)
RootOf(p, i, fuel) ==
    IF p[i] = i \/ fuel = 0 THEN i ELSE RootOf(p, p[i], fuel - 1)

\* the class of i: the elements with the same root
ClassOf(p, i) ==
    {j \in DOMAIN p :
        RootOf(p, j, DS_size(p)) = RootOf(p, i, DS_size(p))}

\* the partition that the array p represents
Partition(p) == {ClassOf(p, i) : i \in DOMAIN p}

\* what find(a) followed by find(b) return
FindBoth(ra, b) == <<ra.ret, DS_find(ra.parent, b).ret>>
FindPair(p, a, b) == FindBoth(DS_find(p, a), b)

\* r is the outcome of merge(a, b) on the array p
MergeUnites(r, p, a, b) ==
    /\ r.ret = (FindPair(p, a, b)[1] # FindPair(p, a, b)[2])
    /\ FindPair(r.parent, a, b)[1] = FindPair(r.parent, a, b)[2]
    /\ Partition(r.parent)
         = (Partition(p) \ {ClassOf(p, a), ClassOf(p, b)})
             \cup {ClassOf(p, a) \cup ClassOf(p, b)}

\* C16: in any reachable DisjointSet state and for all valid a, b,
\* merge(a, b) returns true exactly when find(a) != find(b) held before the
\* call; after the call find(a) = find(b); the resulting partition is the
\* previous one with the classes of a and b united and every other class
\* unchanged.
C16_Merge ==
    \A a \in DOMAIN ds_parent : \A b \in DOMAIN ds_parent :
        MergeUnites(DS_merge(ds_parent, ds_rank, a, b), ds_parent, a, b)

\* a merge of two classes of two elements each has just returned true and
\* made a tree of rank 2
C16_Witness ==
    /\ last_op.op = "DisjointSet.merge" /\ last_op.ret = 1
    /\ exception = "none"
    /\ DS_size(ds_parent) = MaxElements
    /\ Cardinality(Partition(ds_parent)) = 1
    /\ \E x \in DOMAIN ds_rank : ds_rank[x] = 2
    /\ ds_parent[last_op.adj[1]] # last_op.adj[1]
    /\ ds_parent[last_op.adj[2]] # last_op.adj[2]

\* r is the outcome of find(i) on the array p
FindRepresents(r, p, i) ==
    /\ r.ret \in ClassOf(p, i)
    /\ p[r.ret] = r.ret /\ r.parent[r.ret] = r.ret
    /\ DS_find(r.parent, r.ret).ret = r.ret
    /\ \A j \in DOMAIN p :
         (DS_find(r.parent, j).ret = r.ret) = (j \in ClassOf(p, i))
    /\ Partition(r.parent) = Partition(p)

\* C17: in any reachable DisjointSet state, find(i) returns a representative
\* r of the class of i with parent[r] = r, find(find(i)) = find(i), two
\* elements have equal find results exactly when they are in the same class,
\* and a call to find changes no class of the partition.
C17_Find ==
    \A i \in DOMAIN ds_parent :
        FindRepresents(DS_find(ds_parent, i), ds_parent, i)

\* find has compressed a path: the element found hangs below the root of a
\* tree of rank 2, and a node of rank 1 is left without children
C17_Witness ==
    /\ last_op.op = "DisjointSet.find" /\ exception = "none"
    /\ last_op.ret # last_op.adj[1]
    /\ ds_parent[last_op.adj[1]] = last_op.ret
    /\ ds_rank[last_op.ret] = 2 /\ ds_rank[last_op.adj[1]] = 0
    /\ \E x \in DOMAIN ds_rank :
         /\ ds_rank[x] = 1
         /\ \A j \in DOMAIN ds_parent : ds_parent[j] # x

\* the last call was a find or a merge with an index that is not below N
IndexOutOfRange(op, N) ==
    /\ op.op \in {"DisjointSet.find", "DisjointSet.merge"}
    /\ (op.adj[1] >= N \/ op.adj[2] >= N)

DrawsFollow(i, k) ==
    /\ i + k <= Len(returned)
    /\ \A m \in 1..k : returned[i + m].call = "xor128"

\* C19: given the same seed, the generator produces the same sequence: at
\* any two points of an execution where srand(s) is called with the same s,
\* the values returned by the following xor128 calls (hence by randrange
\* calls with the same arguments) are identical, whatever draws or srand
\* calls came before.
C19_SameSeedSameSequence ==
    \A i \in 1..Len(returned) : \A j \in 1..Len(returned) :
        (/\ returned[i].call = "srand" /\ returned[j].call = "srand"
         /\ returned[i].value = returned[j].value) =>
            \A k \in 1..MaxCalls :
                (DrawsFollow(i, k) /\ DrawsFollow(j, k)) =>
                    /\ returned[i + k].value = returned[j + k].value
                    /\ \A top \in 1..3 :
                         randrange_return(returned[i + k].value, 0, top)
                           = randrange_return(returned[j + k].value, 0, top)

\* the edges of a graph: unordered pairs of an undirected graph, ordered
\* pairs of a directed one
Edges(type, adj) ==
    IF type = "UndirectedGraph" THEN {{e[1], e[2]} : e \in adj} ELSE adj

\* U: the number of edges a graph on N vertices can have
Universe(type, N) ==
    IF type = "UndirectedGraph" THEN (N * (N - 1)) \div 2 ELSE N * (N - 1)

\* C20: on an undirected or a directed graph in any reachable state with P
\* edges and for any M <= U - P, add_edges(M) adds exactly M new edges:
\* every edge it adds was absent before, the added edges are pairwise
\* distinct, and the edge count becomes P + M.
C20_AddEdges ==
    [][(/\ last_op'.op = "add_edges"
        /\ last_op'.int <= Universe(graph_type, vertices_no)
                             - Cardinality(Edges(graph_type, adj_list))) =>
          /\ exception' = "none"
          /\ Edges(graph_type, adj_list) \subseteq Edges(graph_type, adj_list')
          /\ Cardinality(Edges(graph_type, adj_list')
                           \ Edges(graph_type, adj_list)) = last_op'.int
          /\ Cardinality(Edges(graph_type, adj_list'))
               = Cardinality(Edges(graph_type, adj_list)) + last_op'.int]_vars

\* the same for directed graphs alone
C20_AddEdgesDirected ==
    [][(/\ graph_type = "DirectedGraph"
        /\ last_op'.op = "add_edges"
        /\ last_op'.int <= Universe(graph_type, vertices_no)
                             - Cardinality(Edges(graph_type, adj_list))) =>
          /\ exception' = "none"
          /\ Cardinality(Edges(graph_type, adj_list')
                           \ Edges(graph_type, adj_list)) = last_op'.int]_vars

\* the complete graph on N vertices as the adjacencies either class stores
Complete(N) == {e \in (0..(N - 1)) \X (0..(N - 1)) : e[1] # e[2]}

\* C21: after add_edges(M) on a graph with no edges, where M is at most
\* N(N-1)/2 on an undirected and N(N-1) on a directed graph, the graph has
\* exactly M edges, pairwise distinct, each with both endpoints below N and
\* no self-loop; with M = U the result is the complete graph.
C21_AddEdgesEmpty ==
    [][(/\ last_op'.op = "add_edges"
        /\ adj_list = {}
        /\ last_op'.int <= Universe(graph_type, vertices_no)) =>
          /\ exception' = "none"
          /\ Cardinality(Edges(graph_type, adj_list')) = last_op'.int
          /\ \A e \in adj_list' :
                e[1] < vertices_no /\ e[2] < vertices_no /\ e[1] # e[2]
          /\ (last_op'.int = Universe(graph_type, vertices_no)
                => adj_list' = Complete(vertices_no))]_vars

\* add_edges(3) has made the complete undirected graph on three vertices
C21_Witness ==
    /\ graph_type = "UndirectedGraph"
    /\ vertices_no = 3
    /\ last_op.op = "add_edges"
    /\ last_op.int = 3
    /\ exception = "none"
    /\ adj_list = Complete(3)

\* add_edges(M) asks for more edges than the graph has room for
Overfull(type, N, adj, M) ==
    M + Cardinality(Edges(type, adj)) > Universe(type, N)

\* C22: add_edges(M) with M + |E| > U fails with the TooManyEdges error and
\* leaves the edge set unchanged.
C22_TooManyEdges ==
    [][(/\ last_op'.op = "add_edges"
        /\ Overfull(graph_type, vertices_no, adj_list, last_op'.int)) =>
          /\ exception' = "TooManyEdgesException"
          /\ adj_list' = adj_list]_vars

\* what the call does instead, on a graph that stores no self-loop: the
\* sampler's exception leaves add_edges
C22_TooManySamples ==
    [][(/\ last_op'.op = "add_edges"
        /\ \A e \in adj_list : e[1] # e[2]
        /\ Overfull(graph_type, vertices_no, adj_list, last_op'.int)) =>
          /\ exception' = "TooManySamplesException"
          /\ adj_list' = adj_list]_vars

\* the round trips of the two lambdas, as far as the last application shows
RoundTrip(type) ==
    /\ (graph_type = type /\ last_op.op = "edge_to_rank") =>
          rank_to_edge(type, vertices_no, last_op.int) = last_op.adj
    /\ (graph_type = type /\ last_op.op = "rank_to_edge") =>
          edge_to_rank(type, vertices_no, last_op.adj) = last_op.int

\* C23: for the undirected (and DAG) universe, where edge_to_rank(u, v) is
\* u(u+1)/2 + v for u > v and rank_to_edge(r) is (u, r - u(u-1)/2) with
\* u = round(sqrt(2(r+1))): rank_to_edge(edge_to_rank(e)) = e for every
\* valid edge e with N > u > v >= 0, and edge_to_rank(rank_to_edge(r)) = r
\* for every r in [0, N(N-1)/2).
C23_UndirectedRoundTrip == RoundTrip("UndirectedGraph")

\* C24: for the directed universe on N >= 2 vertices, where
\* edge_to_rank(u, v) is u(N-1) + v - [v > u] and rank_to_edge splits r by
\* N - 1: rank_to_edge(edge_to_rank(e)) = e for every e with u # v and
\* u, v < N, and edge_to_rank(rank_to_edge(r)) = r for every r in
\* [0, N(N-1)).
C24_DirectedRoundTrip == RoundTrip("DirectedGraph")

\* edge_to_rank has ranked an edge whose head is above its tail
C24_Witness ==
    /\ graph_type = "DirectedGraph"
    /\ vertices_no = 3
    /\ last_op.op = "edge_to_rank"
    /\ last_op.adj = <<1, 2>>
    /\ last_op.int = 3

\* the vertices joined to a vertex of S by a path of stored adjacencies
RECURSIVE Reach(_, _)
Reach(S, adj) ==
    LET more == S \cup {e[2] : e \in {f \in adj : f[1] \in S}}
    IN IF more = S THEN S ELSE Reach(more, adj)

\* c: the number of connected components of the graph on the vertices
\* 0 .. N-1
Components(N, adj) ==
    Cardinality({Reach({v}, adj) \cap (0..(N - 1)) : v \in 0..(N - 1)})

\* connect() has just been called on an undirected graph
Connects == graph_type = "UndirectedGraph" /\ last_op'.op = "connect"

\* C25: for an undirected graph on N >= 1 vertices in any reachable state
\* with c connected components, and for every outcome of the shuffle and of
\* the random choices, connect() leaves the graph with exactly one
\* component and increases the number of edges by exactly c - 1.
C25_Connect ==
    [][Connects =>
          /\ exception' = "none"
          /\ Components(vertices_no, adj_list') = 1
          /\ Cardinality(Edges(graph_type, adj_list'))
               = Cardinality(Edges(graph_type, adj_list))
                   + Components(vertices_no, adj_list) - 1]_vars

\* the same in the states where every stored vertex is below N
C25_ConnectInRange ==
    [][(Connects /\ G_in_range) =>
          /\ exception' = "none"
          /\ Components(vertices_no, adj_list') = 1
          /\ Cardinality(Edges(graph_type, adj_list'))
               = Cardinality(Edges(graph_type, adj_list))
                   + Components(vertices_no, adj_list) - 1]_vars

\* connect() is called on a connected graph, or right after a connect()
\* that returned
ConnectsAgain ==
    /\ Connects
    /\ \/ Components(vertices_no, adj_list) = 1
       \/ last_op.op = "connect" /\ exception = "none"

\* C26: connect() on an already connected undirected graph is a no-op: it
\* adds no edge and raises no error; so calling connect() twice has the
\* same effect as calling it once.
C26_ConnectIdempotent ==
    [][ConnectsAgain => adj_list' = adj_list /\ exception' = "none"]_vars

\* the same in the states where every stored vertex is below N
C26_ConnectIdempotentInRange ==
    [][(ConnectsAgain /\ G_in_range) =>
          adj_list' = adj_list /\ exception' = "none"]_vars

\* C27: add_edge(u, v) with u >= N or v >= N fails with InvalidArgument and
\* stores no adjacency.
C27_AddEdgeOutOfRange ==
    [][(/\ last_op'.op = "add_edge"
        /\ \/ last_op'.adj[1] >= vertices_no
           \/ last_op'.adj[2] >= vertices_no) =>
          /\ exception' # "none"
          /\ adj_list' = adj_list]_vars

\* C28: on a directed graph add_edge(a, a) is rejected as invalid: after
\* the call no adjacency (a, a) is stored.
C28_DirectedSelfLoop ==
    (/\ graph_type = "DirectedGraph"
     /\ last_op.op = "add_edge"
     /\ last_op.adj[1] = last_op.adj[2]) =>
       last_op.adj \notin adj_list

\* every stored adjacency joins two distinct vertices below N
Simple(N, adj) == \A e \in adj : e[1] # e[2] /\ e[1] < N /\ e[2] < N

\* C29: after any sequence of build_path, build_cycle, build_star,
\* build_wheel, build_clique, build_forest, build_tree, add_edges and
\* connect on a graph constructed with N >= 3 vertices, every stored
\* adjacency (u, v) satisfies u # v, u < N and v < N.
C29_StoredAdjacencies == vertices_no >= 3 => Simple(vertices_no, adj_list)

\* every method but build_wheel keeps the stored adjacencies so
C29_ButWheel ==
    [][(/\ vertices_no >= 3
        /\ Simple(vertices_no, adj_list)
        /\ last_op'.op # "build_wheel") =>
          Simple(vertices_no, adj_list')]_vars

\* every vertex has at most one stored neighbour of smaller index
OneSmaller(adj) ==
    \A e \in adj : \A f \in adj :
        (e[1] = f[1] /\ e[2] < e[1] /\ f[2] < f[1]) => e = f

\* C30: on an undirected graph with no edges and N >= 1, build_forest(M)
\* with M <= N - 1 adds exactly M distinct edges, each joining a vertex to
\* a strictly smaller-indexed vertex, so the result is acyclic with N - M
\* connected components (build_tree gives one component); build_forest(M)
\* with M > N - 1 fails with TooManyEdges and adds nothing.
C30_BuildForest ==
    [][(/\ graph_type = "UndirectedGraph"
        /\ last_op'.op \in {"build_forest", "build_tree"}
        /\ adj_list = {}) =>
          IF last_op'.int <= vertices_no - 1
          THEN /\ exception' = "none"
               /\ Cardinality(Edges(graph_type, adj_list')) = last_op'.int
               /\ Simple(vertices_no, adj_list')
               /\ OneSmaller(adj_list')
               /\ Components(vertices_no, adj_list')
                    = vertices_no - last_op'.int
               /\ (last_op'.op = "build_tree"
                     => Components(vertices_no, adj_list') = 1)
          ELSE /\ exception' = "TooManyEdgesException"
               /\ adj_list' = adj_list]_vars

\* build_forest(2) has made the path 0 - 1 - 2
C30_Witness ==
    /\ graph_type = "UndirectedGraph"
    /\ vertices_no = 3
    /\ last_op.op = "build_forest"
    /\ last_op.int = 2
    /\ exception = "none"
    /\ adj_list = {<<0, 1>>, <<1, 0>>, <<1, 2>>, <<2, 1>>}

\* C31: on a directed graph with no edges, build_dag(M) with
\* M <= N(N-1)/2 yields exactly M pairwise distinct edges and every edge
\* (u, v) satisfies N > u > v, so the graph is acyclic.
C31_BuildDag ==
    [][(/\ graph_type = "DirectedGraph"
        /\ last_op'.op = "build_dag"
        /\ adj_list = {}
        /\ last_op'.int <= (vertices_no * (vertices_no - 1)) \div 2) =>
          /\ exception' = "none"
          /\ Cardinality(adj_list') = last_op'.int
          /\ \A e \in adj_list' : vertices_no > e[1] /\ e[1] > e[2]]_vars

\* build_dag(3) has made the three downward edges on three vertices
C31_Witness ==
    /\ graph_type = "DirectedGraph"
    /\ vertices_no = 3
    /\ last_op.op = "build_dag"
    /\ last_op.int = 3
    /\ exception = "none"
    /\ adj_list = {<<1, 0>>, <<2, 0>>, <<2, 1>>}

\* (a, b) is stored exactly when (b, a) is
Symmetric(adj) == \A e \in adj : <<e[2], e[1]>> \in adj

\* add_edge(a, b) on a directed graph adds (a, b) and nothing else
DirectedAddsOne ==
    (graph_type = "DirectedGraph" /\ last_op'.op = "add_edge") =>
        adj_list' = adj_list \cup {last_op'.adj}

\* C32: in any reachable state of an UndirectedGraph (after any sequence
\* of add_edge, add_edges, connect and build_* calls) the adjacency set is
\* symmetric: (a, b) is stored exactly when (b, a) is stored; a
\* DirectedGraph add_edge(a, b) stores (a, b) only and never (b, a) as a
\* side effect.
C32_Symmetric ==
    /\ [](graph_type = "UndirectedGraph" => Symmetric(adj_list))
    /\ [][DirectedAddsOne]_vars

\* add_edge(2, 0) has stored both adjacencies of an undirected graph
C32_Witness ==
    /\ graph_type = "UndirectedGraph"
    /\ last_op.op = "add_edge"
    /\ last_op.adj = <<2, 0>>
    /\ adj_list = {<<2, 0>>, <<0, 2>>}

\* the constructor has drawn its K raw values, all of them in [lo, top)
DrawnBelow(top) ==
    (constructed /\ exception = "none") =>
        /\ Len(rs_draws) = rs_args.sample_size
        /\ \A i \in 1..Len(rs_draws) :
              rs_args.min <= rs_draws[i] /\ rs_draws[i] < top

\* hi - K - |E|
HiLessTaken == rs_args.max - rs_args.sample_size - Len(rs_args.excl)

\* C33: RangeSampler takes its K raw draws uniformly from [lo, top) with
\* top = hi - K - |E|, before sorting and shifting them.
C33_DrawsBelowTop == DrawnBelow(HiLessTaken)

\* C33 as amended: the K raw draws are taken from [lo, top) with
\* top = hi - K - |E| + 1.
C33_DrawsBelowTopPlusOne == DrawnBelow(HiLessTaken + 1)

\* a raw draw is hi - K - |E|, the greatest value of the range
C33_Witness ==
    /\ constructed
    /\ exception = "none"
    /\ rs_args.sample_size = 2
    /\ Len(rs_args.excl) = 1
    /\ \E i \in 1..Len(rs_draws) : rs_draws[i] = HiLessTaken

\* the connected components of the graph on the vertices 0 .. N-1
ComponentsOf(N, adj) ==
    {Reach({v}, adj) \cap (0..(N - 1)) : v \in 0..(N - 1)}

\* the edges of the component quotient graph that the added adjacencies are
QuotientEdges(adj, added) ==
    {{Reach({e[1]}, adj), Reach({e[2]}, adj)} : e \in added}

\* the nodes joined to a node of S by the edges of T
RECURSIVE TreeReach(_, _)
TreeReach(S, T) ==
    LET more == S \cup UNION {t \in T : t \cap S # {}}
    IN IF more = S THEN S ELSE TreeReach(more, T)

\* the labelled trees over the nodes C: the sets of |C| - 1 edges that join
\* all of C
LabelledTrees(C) ==
    {T \in SUBSET {t \in SUBSET C : Cardinality(t) = 2} :
        /\ Cardinality(T) = Cardinality(C) - 1
        /\ \A c \in C : TreeReach({c}, T) = C}

\* the equally likely parent indices: the i-th is one of 0 .. i-1
ParentChoices ==
    {r \in [1..(vertices_no - 1) -> 0..(vertices_no - 1)] :
        \A i \in 1..(vertices_no - 1) : r[i] < i}

\* what connect() makes of the graph for each shuffle and each choice of
\* parent indices: the edges it adds to the quotient graph
Produced(N, adj) ==
    [c \in Shuffled \X ParentChoices |->
       QuotientEdges(adj, connect("UndirectedGraph", adj, DisjointSet(N),
                                  c[1], c[2]) \ adj)]

\* in how many of the equally likely cases the tree T is produced
Times(produced, T) == Cardinality({c \in DOMAIN produced : produced[c] = T})

EquallyOften(produced, trees) ==
    \A T1 \in trees : \A T2 \in trees :
        Times(produced, T1) = Times(produced, T2)

SortedDraws(a) == {d \in DrawTuples(a) : std_is_sorted(d)}

\* what the sort-and-shift step makes of the draws d
Shifted(a, d) ==
    Values(RangeSampler(a.sample_size, a.min, a.max, a.excl, d).samples)

\* C35: for fixed K, lo, hi and E satisfying the sampler precondition (E holds
\* distinct values of [lo, hi) and hi - lo - |E| >= K), the sort-and-shift
\* step maps the sorted multisets of K raw draws one-to-one onto the
\* K-element subsets of [lo, hi) minus E: every sorted multiset gives such a
\* subset, different multisets give different subsets, and every subset comes
\* from one.
C35_OneToOne ==
    (constructed /\ ValidExcl(rs_args) /\ Fits(rs_args)) =>
        /\ \A d \in SortedDraws(rs_args) :
             Shifted(rs_args, d) \in SubsetsOfSize(rs_args)
        /\ \A d \in SortedDraws(rs_args) : \A e \in SortedDraws(rs_args) :
             Shifted(rs_args, d) = Shifted(rs_args, e) => d = e
        /\ \A A \in SubsetsOfSize(rs_args) :
             \E d \in SortedDraws(rs_args) : Shifted(rs_args, d) = A

\* two draws of the same value and an unsorted exclusion list that the shift
\* has to step over: more than one multiset and more than one subset
C35_Witness ==
    /\ constructed /\ exception = "none"
    /\ ValidExcl(rs_args) /\ Fits(rs_args)
    /\ rs_args.sample_size = 2 /\ Len(rs_args.excl) = 2
    /\ rs_args.excl[1] > rs_args.excl[2]
    /\ Cardinality(SubsetsOfSize(rs_args)) = 3
    /\ Cardinality(SortedDraws(rs_args)) = 3
    /\ rs_draws[1] = rs_draws[2]
    /\ Values(samples) = Shifted(rs_args, rs_draws)
    /\ \E i \in 1..2 : samples[i] > rs_draws[i] + (i - 1)

\* the nodes reachable from the nodes S by child pointers
RECURSIVE Descendants(_, _)
Descendants(h, S) ==
    LET more == S \cup (({h.left_child[x] : x \in S}
                         \cup {h.right_child[x] : x \in S}) \ {NULL})
    IN IF more = S THEN S ELSE Descendants(h, more)

ReachableFromRoot(h) ==
    IF h.tree_root = NULL THEN {} ELSE Descendants(h, {h.tree_root})

\* C36: after every public AdjacencyTree operation the nodes form one
\* well-formed binary tree: tree_root is null exactly when the tree is empty
\* and otherwise has no parent, every child's parent pointer points back to
\* the node it is a child of (so no node is a child twice), and the nodes
\* allocated and not deleted are exactly the nodes reachable from tree_root.
C36_WellFormedTree ==
    /\ (tree_root = NULL) = (stored = {})
    /\ (tree_root = NULL) = (size(Heap) = 0)
    /\ tree_root # NULL => parent[tree_root] = NULL
    /\ \A x \in allocated :
         /\ left_child[x] # NULL => parent[left_child[x]] = x
         /\ right_child[x] # NULL => parent[right_child[x]] = x
         /\ left_child[x] # NULL => left_child[x] # right_child[x]
         /\ parent[x] # NULL =>
              (left_child[parent[x]] = x \/ right_child[parent[x]] = x)
    /\ allocated = ReachableFromRoot(Heap)

\* an erase that joined the two subtrees of the erased node, leaving a root
\* with a child
C36_Witness ==
    /\ last_op.op = "erase" /\ last_op.int # NULL
    /\ last_op.int \notin allocated
    /\ Cardinality(allocated) = MaxNodes - 1
    /\ tree_root # NULL
    /\ (left_child[tree_root] # NULL \/ right_child[tree_root] # NULL)
    /\ allocated = ReachableFromRoot(Heap)

\* the query operations of the tree, of its iterators and of the manager
QueryOps ==
    {"find", "has", "lower_bound", "upper_bound", "rank", "select", "begin",
     "end", "+=", "++", "--", "AM.begin", "AM.end", "AM.begin(u)",
     "AM.end(u)", "AM.scan", "AM.distance"}

RECURSIVE Ancestor(_, _, _)
Ancestor(p, x, n) == IF n = 0 THEN x ELSE Ancestor(p, p[x], n - 1)

\* C38: in every reachable DisjointSet state rank[parent[x]] > rank[x] for
\* every non-root x, so the parent pointers form no cycle other than the
\* self-loops of the roots and every find terminates: from every element
\* fewer than N steps along the parent pointers lead to a root.
C38_RankIncreases ==
    /\ \A x \in DOMAIN ds_parent :
         ds_parent[x] # x => ds_rank[ds_parent[x]] > ds_rank[x]
    /\ \A x \in DOMAIN ds_parent :
         \E n \in 0..(DS_size(ds_parent) - 1) :
            LET r == Ancestor(ds_parent, x, n) IN ds_parent[r] = r

\* a merge of two trees of rank 1: a non-root of rank 1 below a root of rank 2,
\* and a non-root of rank 0 below a non-root
C38_Witness ==
    /\ last_op.op = "DisjointSet.merge" /\ last_op.ret = 1
    /\ exception = "none"
    /\ \E x \in DOMAIN ds_parent :
         /\ ds_parent[x] # x /\ ds_rank[x] = 1
         /\ ds_rank[ds_parent[x]] = 2
    /\ \E y \in DOMAIN ds_parent :
         /\ ds_parent[y] # y /\ ds_parent[ds_parent[y]] # ds_parent[y]

\* C39: under any sequence of Random::srand(s) and xor128 (randrange) calls
\* the generator never reaches the degenerate state x = 0 and w = 0, from
\* which every later xor128 returns 0.
C39_NeverDegenerate ==
    ~(/\ \A i \in Bit : Random_x[i] = 0
      /\ \A i \in Bit : Random_w[i] = 0)

====
